---- MODULE Spec2Model ----
(***************************************************************************)
(* Model of the MySQL backend protocol driver of MaxScale                  *)
(* (server/modules/protocol/MySQL/MySQLBackend/mysql_backend.c).           *)
(*                                                                         *)
(* One backend DCB with its MySQLProtocol object is modelled.  Every       *)
(* protocol entry point is one action; the handler itself is a pure        *)
(* operator from the state record (and the handler's inputs) to the state  *)
(* record after the call, so that a handler calling another entry point    *)
(* (dcb->func.write from the read handler) is an operator application.     *)
(*                                                                         *)
(* Bytes read from the server are modelled as naturals, GWBUF chains as    *)
(* sequences of links, each link a non-empty sequence of bytes.  Buffers   *)
(* handed to the write entry point are sequences of packets, each packet a *)
(* record naming its command byte and its GWBUF type bits.                 *)
(***************************************************************************)
EXTENDS Integers, Sequences, FiniteSets, TLC

\* ------------------------------------------------------------------ bounds
\* Number of buffers the router hands to the write entry point in one run.
MaxWrites == 2
\* Number of times the connection is taken out of the persistent pool.
MaxCycles == 1
MaxPartial == 1

\* ------------------------------------------------------- program constants
MYSQL_HEADER_LEN == 4
MYSQL_REPLY_OK == 0
MYSQL_REPLY_ERR == 255
MYSQL_REPLY_EOF == 254
MYSQL_REPLY_AUTHSWITCHREQUEST == 254
MYSQL_EOF_PACKET_LEN == 9
ER_HOST_IS_BLOCKED == 1129
ER_ACCESS_DENIED_ERROR == 1045
\* first payload byte of the server's protocol version 10 handshake
HANDSHAKE_V10 == 10
\* plugin name tokens carried by a modelled AuthSwitchRequest
DEFAULT_MYSQL_AUTH_PLUGIN == 1
OTHER_AUTH_PLUGIN == 2

AuthStates == {"INIT", "PENDING_CONNECT", "CONNECTED", "RESPONSE_SENT",
               "COMPLETE", "HANDSHAKE_FAILED", "FAILED"}

\* ------------------------------------------------------- buffer library
\* A GWBUF chain is a sequence of links; NULL is the empty sequence.
RECURSIVE gwbuf_length(_)
gwbuf_length(b) ==
    IF b = <<>> THEN 0 ELSE Len(Head(b)) + gwbuf_length(Tail(b))

\* The bytes of a chain in order.
RECURSIVE Flat(_)
Flat(b) == IF b = <<>> THEN <<>> ELSE Head(b) \o Flat(Tail(b))

gwbuf_append(a, b) == a \o b

\* gwbuf_split(&b, n): the links holding the first n bytes ...
RECURSIVE gwbuf_split_head(_, _)
gwbuf_split_head(b, n) ==
    IF n = 0 \/ b = <<>> THEN <<>>
    ELSE IF Len(Head(b)) <= n
         THEN <<Head(b)>> \o gwbuf_split_head(Tail(b), n - Len(Head(b)))
         ELSE <<SubSeq(Head(b), 1, n)>>

\* ... and what stays in b.
RECURSIVE gwbuf_split_rest(_, _)
gwbuf_split_rest(b, n) ==
    IF n = 0 \/ b = <<>> THEN b
    ELSE IF Len(Head(b)) <= n
         THEN gwbuf_split_rest(Tail(b), n - Len(Head(b)))
         ELSE <<SubSeq(Head(b), n + 1, Len(Head(b)))>> \o Tail(b)

gwbuf_make_contiguous(b) == IF b = <<>> THEN <<>> ELSE <<Flat(b)>>

\* gw_mysql_get_byte3 of the three bytes at the start of a flat byte
\* sequence; a byte the buffer does not hold reads as the value g.
ByteAt(f, i, g) == IF i <= Len(f) THEN f[i] ELSE g
gw_mysql_get_byte3(f, g) ==
    ByteAt(f, 1, g) + 256 * ByteAt(f, 2, g) + 65536 * ByteAt(f, 3, g)

\* Length in bytes of the complete packets at the start of the flat bytes f.
RECURSIVE CompleteLen(_)
CompleteLen(f) ==
    IF Len(f) < MYSQL_HEADER_LEN THEN 0
    ELSE LET n == gw_mysql_get_byte3(f, 0) + MYSQL_HEADER_LEN
         IN IF n > Len(f) THEN 0
            ELSE n + CompleteLen(SubSeq(f, n + 1, Len(f)))

\* Length of the first packet of f when f starts with a complete packet.
FirstPacketLen(f) ==
    IF Len(f) < MYSQL_HEADER_LEN THEN 0
    ELSE LET n == gw_mysql_get_byte3(f, 0) + MYSQL_HEADER_LEN
         IN IF n > Len(f) THEN 0 ELSE n

\* The packets of a flat sequence of complete packets.
RECURSIVE Packets(_)
Packets(f) ==
    IF FirstPacketLen(f) = 0 THEN <<>>
    ELSE <<SubSeq(f, 1, FirstPacketLen(f))>>
             \o Packets(SubSeq(f, FirstPacketLen(f) + 1, Len(f)))

\* ------------------------------------------------------- wire packets
\* A packet of the server: 3-byte length, sequence id, payload.  The
\* sequence id byte is not read by the driver; the model stores in it the
\* id of the request the packet answers.
Pkt(tag, payload) == <<Len(payload), 0, 0, tag>> \o payload

OkPkt(tag) == Pkt(tag, <<MYSQL_REPLY_OK, 0, 0>>)
ErrPkt(tag, code) == Pkt(tag, <<MYSQL_REPLY_ERR, code % 256, code \div 256>>)
EofPkt(tag) == Pkt(tag, <<MYSQL_REPLY_EOF>>)
\* The handshake carries the scramble (one token instead of 20 bytes).
HandshakePkt(scr) == Pkt(0, <<HANDSHAKE_V10, scr>>)
\* An authenticator-specific packet during authentication.
AuthMoreDataPkt == Pkt(0, <<1>>)
\* AuthSwitchRequest: 0xfe, plugin name (one token), NUL, scramble (one
\* token), padded so that the packet is longer than an EOF packet.
AuthSwitchPkt(plugin, scr) ==
    Pkt(0, <<MYSQL_REPLY_AUTHSWITCHREQUEST, plugin, 0, scr, 0, 0>>)
\* Reply to COM_STMT_PREPARE: header with the parameter and column counts,
\* then the definitions, each group closed by an EOF packet.
PrepareOkPkt(tag, nparam, nattr) == Pkt(tag, <<MYSQL_REPLY_OK, nparam, nattr>>)
FieldDefPkt(tag) == Pkt(tag, <<3, 100>>)

\* ------------------------------------------------------- written packets
\* A buffer handed to write: the command byte, whether the GWBUF carries
\* the type bits SINGLE_STMT and SESCMD, who built it, the scramble a
\* driver-built packet was computed from and (once on the socket) the
\* auth_state at the time it was written.
ClientPkt(id, cmd, sescmd) ==
    [id |-> id, cmd |-> cmd, sescmd |-> sescmd, origin |-> "client",
     scr |-> 0, user |-> "-", st |-> "-"]
DriverPkt(kind, cmd, sescmd, scr, user) ==
    [id |-> 0, cmd |-> cmd, sescmd |-> sescmd, origin |-> kind,
     scr |-> scr, user |-> user, st |-> "-"]

\* The identity of the session, and the one a COM_CHANGE_USER asks for.
OldUser == [user |-> "u0", db |-> "d0", client_sha1 |-> "p0"]
NewUser == [user |-> "u1", db |-> "d1", client_sha1 |-> "p1"]

\* The buffers a client session hands to the write entry point.
ClientKinds ==
    { [cmd |-> "COM_QUERY", sescmd |-> FALSE],
      [cmd |-> "COM_QUERY", sescmd |-> TRUE],
      [cmd |-> "COM_STMT_PREPARE", sescmd |-> TRUE],
      [cmd |-> "COM_QUIT", sescmd |-> FALSE],
      [cmd |-> "COM_QUIT", sescmd |-> TRUE] }

MYSQL_IS_COM_QUIT(queue) == queue[1].cmd = "COM_QUIT"
MYSQL_IS_CHANGE_USER(queue) == queue[1].cmd = "COM_CHANGE_USER"
GWBUF_IS_SESCMD(queue) == queue[1].sescmd

\* ------------------------------------------------------------------ state
VARIABLES
    auth_state,        \* proto->protocol_auth_state
    dcb_state,         \* dcb->state
    ssl_state,         \* dcb->ssl_state
    persistentstart,   \* dcb->persistentstart # 0: the DCB sits in the pool
    was_persistent,    \* dcb->was_persistent
    errhandle_called,  \* dcb->dcb_errhandle_called
    ignore_reply,      \* proto->ignore_reply
    stored_query,      \* proto->stored_query
    sq_freed,          \* the buffer stored_query points to has been freed
    mem_error,         \* a freed buffer was freed again or used
    delayq,            \* dcb->delayq
    readqueue,         \* dcb->dcb_readqueue
    cmdq,              \* proto->protocol_command list (session commands)
    cursor,            \* response status of the head session command
    scramble,          \* proto->scramble
    current_command,   \* proto->current_command
    client_command,    \* current_command of the client's protocol
    session_state,     \* dcb->session->state
    socket,            \* packets written to the backend, not yet answered
    wire,              \* bytes sent by the server, not yet read
    calls,             \* router callbacks made by the last entry point call
    ends,              \* tags of the RESPONSE_END buffers given to clientReply
    fake_hangup,       \* a poll_fake_hangup_event is pending
    rc,                \* return value of the last entry point call
    last,              \* the last entry point called
    server_maint,      \* server_set_status(SERVER_MAINT) was called
    refreshes,         \* service_refresh_users was called by the last call
    persistpoolmax,    \* dcb->server->persistpoolmax
    server_ssl,        \* dcb->server->server_ssl
    caps,              \* service_get_capabilities(session->service)
    greeted,           \* the server has sent its first packet
    peer_closed,       \* the server has closed the connection
    hung,              \* the hangup or error event was delivered
    npartial,          \* reads that took a fragment of the wire
    mses,              \* the session's user, db and client_sha1
    fakeq,             \* dcb->dcb_fakequeue
    nwrites,           \* buffers handed to write so far
    cycles,            \* times taken out of the pool so far
    packet,            \* a COM_CHANGE_USER being built: its inputs and bytes
    test               \* a run of the bug359 system test: its inputs and result

vars == <<auth_state, dcb_state, ssl_state, persistentstart, was_persistent,
          errhandle_called, ignore_reply, stored_query, sq_freed, mem_error,
          delayq, readqueue, cmdq, cursor, scramble, current_command,
          client_command, session_state, socket, wire, calls, ends, fake_hangup, rc, last, server_maint, refreshes,
          persistpoolmax, server_ssl, caps, greeted, peer_closed, hung, npartial,
          mses, fakeq,
          nwrites, cycles, packet, test>>

\* The state as one record: the argument and the value of every handler.
Cur ==
    [auth_state |-> auth_state, dcb_state |-> dcb_state,
     ssl_state |-> ssl_state, persistentstart |-> persistentstart,
     was_persistent |-> was_persistent,
     errhandle_called |-> errhandle_called, ignore_reply |-> ignore_reply,
     stored_query |-> stored_query, sq_freed |-> sq_freed,
     mem_error |-> mem_error, delayq |-> delayq, readqueue |-> readqueue,
     cmdq |-> cmdq, cursor |-> cursor, scramble |-> scramble,
     current_command |-> current_command, client_command |-> client_command,
     session_state |-> session_state, socket |-> socket, wire |-> wire,
     calls |-> calls, ends |-> ends, fake_hangup |-> fake_hangup, rc |-> rc,
     last |-> last, server_maint |-> server_maint, refreshes |-> refreshes,
     persistpoolmax |-> persistpoolmax, server_ssl |-> server_ssl,
     caps |-> caps, greeted |-> greeted, peer_closed |-> peer_closed,
     hung |-> hung, npartial |-> npartial, mses |-> mses, fakeq |-> fakeq,
     nwrites |-> nwrites, cycles |-> cycles]

Commit(t) ==
    /\ auth_state' = t.auth_state
    /\ dcb_state' = t.dcb_state
    /\ ssl_state' = t.ssl_state
    /\ persistentstart' = t.persistentstart
    /\ was_persistent' = t.was_persistent
    /\ errhandle_called' = t.errhandle_called
    /\ ignore_reply' = t.ignore_reply
    /\ stored_query' = t.stored_query
    /\ sq_freed' = t.sq_freed
    /\ mem_error' = t.mem_error
    /\ delayq' = t.delayq
    /\ readqueue' = t.readqueue
    /\ cmdq' = t.cmdq
    /\ cursor' = t.cursor
    /\ scramble' = t.scramble
    /\ current_command' = t.current_command
    /\ client_command' = t.client_command
    /\ session_state' = t.session_state
    /\ socket' = t.socket
    /\ wire' = t.wire
    /\ calls' = t.calls
    /\ ends' = t.ends
    /\ fake_hangup' = t.fake_hangup
    /\ rc' = t.rc
    /\ last' = t.last
    /\ server_maint' = t.server_maint
    /\ refreshes' = t.refreshes
    /\ persistpoolmax' = t.persistpoolmax
    /\ server_ssl' = t.server_ssl
    /\ caps' = t.caps
    /\ greeted' = t.greeted
    /\ peer_closed' = t.peer_closed
    /\ hung' = t.hung
    /\ npartial' = t.npartial
    /\ mses' = t.mses
    /\ fakeq' = t.fakeq
    /\ nwrites' = t.nwrites
    /\ cycles' = t.cycles
    /\ packet' = packet
    /\ test' = test

\* Entry into a handler: the per-call observations are reset.
Enter(s, name) ==
    [s EXCEPT !.calls = <<>>, !.refreshes = 0, !.rc = 0, !.last = name]

\* ------------------------------------------------------- collaborators
\* dcb_write: the buffer goes to the socket in order, or the call fails
\* (wok = FALSE) and the buffer is freed.  Each packet is stamped with the
\* auth_state it was written in.
dcb_write(s, queue, wok) ==
    IF wok /\ queue # <<>>
    THEN [s EXCEPT !.socket = @ \o [i \in 1..Len(queue) |->
                                      [queue[i] EXCEPT !.st = s.auth_state]],
                   !.rc = 1]
    ELSE [s EXCEPT !.rc = 0]

\* The router's handleError: it marks the DCB as handled and reports in
\* succp whether the session can go on.
handleError(s, action, succp) ==
    [s EXCEPT !.calls = Append(@, [op |-> "handleError", action |-> action,
                                   succp |-> succp]),
              !.errhandle_called = TRUE]

\* The router's clientReply with the buffer stmt (a chain of links).
clientReply(s, stmt, isend) ==
    [s EXCEPT !.calls = Append(@, [op |-> "clientReply", buf |-> Flat(stmt),
                                   isend |-> isend])]

\* protocol_add_srv_command: the command joins the tail of the list.
protocol_add_srv_command(s, cmd) == [s EXCEPT !.cmdq = Append(@, cmd)]

\* protocol_get_srv_command(p, false): the head, or MYSQL_COM_UNDEFINED.
protocol_get_srv_command(s) ==
    IF s.cmdq = <<>> THEN "COM_UNDEFINED" ELSE Head(s.cmdq)

\* Every command of the list is archived.
protocol_archive_srv_command_all(s) == [s EXCEPT !.cmdq = <<>>]

\* protocol_archive_srv_command: the head leaves the list.
protocol_archive_srv_command(s) ==
    [s EXCEPT !.cmdq = IF @ = <<>> THEN @ ELSE Tail(@)]

protocol_set_response_status(s, np, nb) ==
    [s EXCEPT !.cursor.np = np, !.cursor.nb = nb]

\* No hangup event is queued.
poll_fake_hangup_event_none(s) == s

\* poll_fake_hangup_event: a hangup event is queued for the DCB.
poll_fake_hangup_event(s) == [s EXCEPT !.fake_hangup = TRUE]

\* ------------------------------------------------------- change user
\* The packet carries neither the session's user nor the scramble.
gw_create_change_user_packet_anon(s) ==
    <<DriverPkt("change_user", "COM_CHANGE_USER", TRUE, 0, "-")>>

\* gw_create_change_user_packet: a COM_CHANGE_USER computed from the
\* scramble of the protocol, typed SINGLE_STMT | SESCMD.
gw_create_change_user_packet(s) ==
    <<DriverPkt("change_user", "COM_CHANGE_USER", TRUE, s.scramble,
                s.mses.user)>>

\* ------------------------------------------------------- write entry point
\* gwbuf_free of the buffer stored_query points to.
FreeStoredQuery(s) ==
    [s EXCEPT !.mem_error = @ \/ s.sq_freed, !.sq_freed = TRUE]

\* The stored query is lost instead of kept.
StoreQueryForgets(s, queue) == [s EXCEPT !.ignore_reply = TRUE, !.rc = 1]

\* The query is stored but the reply is not marked as awaited.
StoreQueryUnflagged(s, queue) ==
    [s EXCEPT !.stored_query = queue, !.sq_freed = FALSE, !.rc = 1]

\* Lines 1010-1014: the client's buffer waits for the reply to the
\* COM_CHANGE_USER.
StoreQuery(s, queue) ==
    [s EXCEPT !.ignore_reply = TRUE, !.stored_query = queue,
              !.sq_freed = FALSE, !.rc = 1]

\* The buffer of a DCB from the pool goes to the socket as it is.
WritePersistentForwards(s, queue, wok) ==
    dcb_write([s EXCEPT !.was_persistent = FALSE], queue, wok)

\* The DCB was just taken out of the persistent pool.
WritePersistent(s, queue, wok) ==
    LET s1 == [s EXCEPT !.was_persistent = FALSE, !.ignore_reply = FALSE]
    IN  IF s1.dcb_state # "POLLING" \/ s1.auth_state # "COMPLETE"
        THEN [s1 EXCEPT !.rc = 0]
        ELSE LET s2 == IF s1.stored_query # <<>>
                       THEN FreeStoredQuery(s1) ELSE s1
             IN  IF MYSQL_IS_COM_QUIT(queue)
                 THEN [s2 EXCEPT !.rc = 1]
                 ELSE LET s3 == dcb_write(s2, gw_create_change_user_packet(s2),
                                          wok)
                      IN  IF s3.rc # 0
                          THEN StoreQuery(s3, queue)
                          ELSE [s3 EXCEPT !.rc = 0]

\* The COM_QUIT also frees the stored query.
WriteIgnoreReplyFrees(s, queue) ==
    IF MYSQL_IS_COM_QUIT(queue)
    THEN [poll_fake_hangup_event(s) EXCEPT !.stored_query = <<>>, !.rc = 0]
    ELSE [s EXCEPT !.stored_query = gwbuf_append(@, queue),
                   !.mem_error = @ \/ s.sq_freed,
                   !.rc = 1]

\* The buffer is put in front of the stored query.
WriteIgnoreReplyPrepends(s, queue) ==
    IF MYSQL_IS_COM_QUIT(queue)
    THEN [poll_fake_hangup_event(s) EXCEPT !.rc = 0]
    ELSE [s EXCEPT !.stored_query = gwbuf_append(queue, @), !.rc = 1]

\* The reply to COM_CHANGE_USER is still awaited.
WriteIgnoreReply(s, queue) ==
    IF MYSQL_IS_COM_QUIT(queue)
    THEN [poll_fake_hangup_event(s) EXCEPT !.rc = 0]
    ELSE [s EXCEPT !.stored_query = gwbuf_append(@, queue),
                   !.mem_error = @ \/ s.sq_freed,
                   !.rc = 1]

\* case MXS_AUTH_STATE_HANDSHAKE_FAILED, MXS_AUTH_STATE_FAILED
WriteAuthFailed(s, queue) == [s EXCEPT !.rc = 0]

\* case MXS_AUTH_STATE_COMPLETE
WriteComplete(s, queue, wok) ==
    LET cmd == queue[1].cmd
        s0 == [s EXCEPT !.current_command = s.client_command]
        s1 == IF GWBUF_IS_SESCMD(queue)
              THEN protocol_add_srv_command(s0, cmd) ELSE s0
    IN  IF cmd = "COM_QUIT" /\ s1.persistpoolmax # 0
        THEN [s1 EXCEPT !.rc = 1]
        ELSE dcb_write(s1, queue, wok)

\* The buffer is put in front of the queue.
backend_set_delayqueue_front(s, queue) ==
    [s EXCEPT !.delayq = gwbuf_append(queue, @)]

\* backend_set_delayqueue
backend_set_delayqueue(s, queue) ==
    [s EXCEPT !.delayq = gwbuf_append(@, queue)]

\* A write that does not wait for the authentication.
WriteDelayedSends(s, queue) == dcb_write(s, queue, TRUE)

\* default: the connection is not authenticated yet
WriteDelayed(s, queue) ==
    LET s1 == IF GWBUF_IS_SESCMD(queue)
              THEN protocol_add_srv_command(s, queue[1].cmd) ELSE s
    IN  [backend_set_delayqueue(s1, queue) EXCEPT !.rc = 1]

gw_MySQLWrite_backend(s, queue, wok) ==
    IF s.was_persistent THEN WritePersistent(s, queue, wok)
    ELSE IF s.ignore_reply THEN WriteIgnoreReply(s, queue)
    ELSE IF s.auth_state \in {"HANDSHAKE_FAILED", "FAILED"}
         THEN WriteAuthFailed(s, queue)
    ELSE IF s.auth_state = "COMPLETE" THEN WriteComplete(s, queue, wok)
    ELSE WriteDelayed(s, queue)

\* ------------------------------------------------------- delay queue
\* gw_get_shared_session_auth_info and gw_create_change_user_packet: the
\* whole buffer is freed and one rebuilt COM_CHANGE_USER takes its place.
DelayqBuffer(s, buffer) ==
    IF MYSQL_IS_CHANGE_USER(buffer)
    THEN [i \in {1} |-> [gw_create_change_user_packet(s)[1]
                           EXCEPT !.id = buffer[1].id]]
    ELSE buffer

backend_write_delayqueue(s, buffer, wok, succp) ==
    LET buf == DelayqBuffer(s, buffer)
        s1 == IF MYSQL_IS_COM_QUIT(buf) /\ s.persistpoolmax # 0
              THEN [s EXCEPT !.rc = 1]
              ELSE dcb_write(s, buf, wok)
    IN  IF s1.rc = 0
        THEN LET s2 == handleError(s1, "ERRACT_NEW_CONNECTION", succp)
             IN  IF ~succp THEN [s2 EXCEPT !.session_state = "STOPPING"]
                 ELSE s2
        ELSE s1

\* ------------------------------------------------------- reading
\* dcb_read: the read queue followed by the next k bytes of the socket,
\* the new bytes as one link.  The value is <<state, buffer>>.
dcb_read(s, k) ==
    LET new == IF k = 0 THEN <<>> ELSE <<SubSeq(s.wire, 1, k)>>
        old == IF s.readqueue # <<>> THEN s.readqueue
               ELSE IF s.fakeq # <<>> THEN <<s.fakeq>> ELSE <<>>
    IN  [s |-> [s EXCEPT !.readqueue = <<>>,
                         !.fakeq = IF s.readqueue # <<>> THEN @ ELSE <<>>,
                         !.wire = SubSeq(@, k + 1, Len(@))],
         buf |-> gwbuf_append(old, new)]

\* modutil_get_complete_packets(&buf): the complete packets at the start
\* of the chain are split off, the rest stays in buf.
modutil_get_complete_packets(buf) ==
    LET n == CompleteLen(Flat(buf))
    IN  [packets |-> gwbuf_split_head(buf, n),
         rest |-> gwbuf_split_rest(buf, n)]

\* modutil_get_next_MySQL_packet(&buf): the first packet, when complete.
modutil_get_next_MySQL_packet(buf) ==
    LET n == FirstPacketLen(Flat(buf))
    IN  [packet |-> gwbuf_split_head(buf, n),
         rest |-> gwbuf_split_rest(buf, n)]

\* read_complete_packet: false when the read fails; otherwise the complete
\* packets read, any extra data joining the read queue.
read_complete_packet(s, k, rdok) ==
    IF ~rdok THEN [s |-> s, ok |-> FALSE, readbuf |-> <<>>]
    ELSE LET r == dcb_read(s, k)
             c == modutil_get_complete_packets(r.buf)
         IN  [s |-> [r.s EXCEPT !.readqueue = gwbuf_append(@, c.rest)],
              ok |-> TRUE,
              readbuf |-> c.packets]

\* ------------------------------------------------------- authentication
is_error_response(f) == Len(f) > MYSQL_HEADER_LEN /\ f[5] = MYSQL_REPLY_ERR

MYSQL_GET_ERRCODE(f) == ByteAt(f, 6, 0) + 256 * ByteAt(f, 7, 0)

AccessDeniedCodes == {1045, 1044, 1698}

\* Every error but a blocked host makes the user list refresh.
handle_error_response_refreshes(s, f) ==
    IF MYSQL_GET_ERRCODE(f) = ER_HOST_IS_BLOCKED
    THEN [s EXCEPT !.server_maint = TRUE]
    ELSE [s EXCEPT !.refreshes = @ + 1]

handle_error_response(s, f) ==
    LET errcode == MYSQL_GET_ERRCODE(f)
    IN  IF errcode = ER_HOST_IS_BLOCKED
        THEN [s EXCEPT !.server_maint = TRUE]
        ELSE IF errcode \in AccessDeniedCodes /\ s.session_state # "DUMMY"
             THEN [s EXCEPT !.refreshes = @ + 1]
             ELSE s

AuthRcs == {"SUCCEEDED", "INCOMPLETE", "SSL_INCOMPLETE", "FAILED"}

\* dcb->authfunc.extract and dcb->authfunc.authenticate as
\* handle_server_response calls them: authenticate only after extract
\* succeeded or was incomplete.
AuthenticatorCalls(s, ext, auth) ==
    [s EXCEPT !.calls = @ \o <<[op |-> "extract", rc |-> ext]>>
                          \o (IF ext \in {"SUCCEEDED", "INCOMPLETE"}
                              THEN <<[op |-> "authenticate", rc |-> auth]>>
                              ELSE <<>>)]

\* The verdict of authenticate decides, whatever extract returned.
handle_server_response_lenient(s, ext, auth) ==
    CASE auth \in {"INCOMPLETE", "SSL_INCOMPLETE"} -> "RESPONSE_SENT"
      [] auth = "SUCCEEDED" -> "COMPLETE"
      [] OTHER -> "FAILED"

\* handle_server_response: the state the authenticator's verdict leads to.
handle_server_response(s, ext, auth) ==
    LET rval == IF s.auth_state = "CONNECTED"
                THEN "HANDSHAKE_FAILED" ELSE "FAILED"
    IN  IF ext \in {"SUCCEEDED", "INCOMPLETE"}
        THEN CASE auth \in {"INCOMPLETE", "SSL_INCOMPLETE"} -> "RESPONSE_SENT"
               [] auth = "SUCCEEDED" -> "COMPLETE"
               [] OTHER -> rval
        ELSE rval

\* gw_read_backend_handshake: decodes a protocol version 10 handshake and
\* stores its scramble.
HandshakeDecodes(f) == Len(f) >= 6 /\ f[5] = HANDSHAKE_V10
gw_read_backend_handshake(s, f) == [s EXCEPT !.scramble = f[6]]

\* gw_send_backend_auth: writes the SSL request (then the state stays
\* CONNECTED until the SSL handshake is done) or the handshake response;
\* the value carries the auth_state the caller assigns.
gw_send_backend_auth(s, wok) ==
    IF s.server_ssl /\ s.ssl_state # "ESTABLISHED"
    THEN LET s1 == dcb_write(s, <<DriverPkt("ssl", "SSLRequest", FALSE, 0, "-")>>,
                             wok)
         IN  IF s1.rc # 0
             THEN [s1 EXCEPT !.ssl_state = "HANDSHAKE_REQUIRED",
                             !.auth_state = "CONNECTED"]
             ELSE [s1 EXCEPT !.auth_state = "FAILED"]
    ELSE LET s1 == dcb_write(s, <<DriverPkt("auth", "HandshakeResponse",
                                            FALSE, s.scramble, "-")>>, wok)
         IN  [s1 EXCEPT !.auth_state = IF s1.rc # 0 THEN "RESPONSE_SENT"
                                       ELSE "FAILED"]

\* The authentication failure is reported as a lost connection.
gw_reply_on_error_retry(s, succp) ==
    [handleError(s, "ERRACT_NEW_CONNECTION", succp)
       EXCEPT !.session_state = "STOPPING"]

\* The session is stopped only when the hook found no way to go on.
gw_reply_on_error_succp(s, succp) ==
    LET s1 == handleError(s, "ERRACT_REPLY_CLIENT", succp)
    IN  IF succp THEN s1 ELSE [s1 EXCEPT !.session_state = "STOPPING"]

gw_reply_on_error(s, succp) ==
    IF "NO_RSESSION" \notin s.caps
    THEN [handleError(s, "ERRACT_REPLY_CLIENT", succp)
            EXCEPT !.session_state = "STOPPING"]
    ELSE [s EXCEPT !.errhandle_called = TRUE]

\* The server's packet while the state is CONNECTED or RESPONSE_SENT.
AuthStep(s, f, in) ==
    LET s1 == IF is_error_response(f)
              THEN handle_error_response([s EXCEPT !.auth_state = "FAILED"], f)
              ELSE s
    IN  IF s1.auth_state = "CONNECTED"
        THEN IF HandshakeDecodes(f)
             THEN gw_send_backend_auth(gw_read_backend_handshake(s1, f),
                                       in.wok)
             ELSE [s1 EXCEPT !.auth_state = "FAILED"]
        ELSE IF s1.auth_state = "RESPONSE_SENT"
             THEN [AuthenticatorCalls(s1, in.ext, in.auth)
                     EXCEPT !.auth_state =
                                handle_server_response(s1, in.ext, in.auth)]
             ELSE s1

\* The delay queue stays where it is.
KeepDelayq(s) == s

\* Lines 513-514: localq = dcb->delayq; dcb->delayq = NULL
TakeDelayq(s) == [s EXCEPT !.delayq = <<>>]

\* Authentication completed or failed.
AuthOutcome(s, in) ==
    IF s.auth_state = "COMPLETE"
    THEN IF s.delayq # <<>>
         THEN backend_write_delayqueue(TakeDelayq(s), s.delayq,
                                       in.wok, in.succp)
         ELSE s
    ELSE IF s.auth_state \in {"FAILED", "HANDSHAKE_FAILED"}
         THEN gw_reply_on_error(s, in.succp)
         ELSE s

\* gw_read_backend_event while auth_state is not COMPLETE.
ReadAuth(s, in) ==
    LET r == read_complete_packet(s, in.k, in.rdok)
    IN  IF ~r.ok
        THEN gw_reply_on_error([r.s EXCEPT !.auth_state = "FAILED"], in.succp)
        ELSE IF r.readbuf # <<>>
             THEN AuthOutcome(AuthStep(r.s, Flat(r.readbuf), in), in)
             ELSE IF r.s.auth_state = "CONNECTED"
                     /\ r.s.ssl_state = "ESTABLISHED"
                  THEN gw_send_backend_auth(r.s, in.wok)
                  ELSE r.s

\* ------------------------------------------------------- response tracker
Min(a, b) == IF a < b THEN a ELSE b

\* init_response_status: the number of packets the reply to cmd has, from
\* the command and the first packet, and the length of the first packet.
\* A byte the buffer does not hold yet reads as g.
init_response_status(f, cmd, g) ==
    LET nparam == ByteAt(f, 6, g)
        nattr == ByteAt(f, 7, g)
    IN  [np |-> IF ByteAt(f, 5, g) = MYSQL_REPLY_ERR THEN 1
                ELSE IF cmd = "COM_STMT_PREPARE"
                     THEN 1 + nparam + Min(1, nparam) + nattr + Min(nattr, 1)
                ELSE IF cmd \in {"COM_QUIT", "COM_STMT_SEND_LONG_DATA",
                                 "COM_STMT_CLOSE"}
                     THEN 0
                ELSE 1,
         nb |-> gw_mysql_get_byte3(f, g) + MYSQL_HEADER_LEN]

\* The head of the loop: the response status is read from the protocol or
\* concluded from the buffer.
PrdStatus(L, g) ==
    IF L.np # 0 THEN L
    ELSE LET c == L.s.cursor
             init == (c.np < 0 /\ c.nb = 0) \/ c.np = 0
             srvcmd == protocol_get_srv_command(L.s)
             st == IF init
                   THEN init_response_status(Flat(L.readbuf), srvcmd, g)
                   ELSE c
         IN  [L EXCEPT !.np = st.np, !.nb = st.nb, !.ip = st.np, !.ib = st.nb,
                       !.s.cursor.cmd = IF init THEN srvcmd ELSE @]

\* The three cases: incomplete packet, exactly one packet, more data.
PrdTake(L) ==
    IF L.nb > L.n
    THEN [L EXCEPT !.readbuf = IF L.n >= 5 THEN Tail(@) ELSE @,
                   !.nb = IF L.n >= 5 THEN @ - L.n ELSE @,
                   !.n = 0]
    ELSE IF L.nb = L.n
         THEN [L EXCEPT !.nb = 0, !.n = 0, !.np = @ - 1,
                        !.outbuf = gwbuf_append(@, L.readbuf),
                        !.readbuf = <<>>]
         ELSE [L EXCEPT !.outbuf = gwbuf_append(@,
                                       gwbuf_split_head(L.readbuf, L.nb)),
                        !.readbuf = gwbuf_split_rest(@, L.nb),
                        !.n = @ - L.nb, !.np = @ - 1, !.nb = 0]

\* The command is archived after every packet.
PrdNextEager(L) ==
    IF L.nb # 0 THEN L
    ELSE [L EXCEPT !.s = protocol_archive_srv_command(@), !.n = 0]

\* A complete packet was read: the response ends, or the tracker stops for
\* lack of the next header, or the next packet's length is read.
PrdNext(L) ==
    IF L.nb # 0 THEN L
    ELSE IF L.np = 0 /\ L.outbuf # <<>>
         THEN [L EXCEPT !.isend = TRUE,
                        !.s = protocol_archive_srv_command(@),
                        !.n = 0]
         ELSE IF L.readbuf = <<>> \/ gwbuf_length(L.readbuf) < 3
              THEN [L EXCEPT
                      !.s = protocol_set_response_status(
                                [@ EXCEPT !.readqueue =
                                            gwbuf_append(L.outbuf, @)],
                                L.ip, L.ib),
                      !.null = TRUE, !.outbuf = <<>>, !.n = 0]
              ELSE LET nb == gw_mysql_get_byte3(Flat(L.readbuf), 0)
                               + MYSQL_HEADER_LEN
                   IN  [L EXCEPT !.nb = nb,
                                 !.s = protocol_set_response_status(@, L.np,
                                                                    nb)]

PrdIter(L, g) ==
    LET L1 == PrdTake(PrdStatus(L, g))
        L2 == [L1 EXCEPT !.s = protocol_set_response_status(@, L1.np, L1.nb)]
    IN  PrdNext(L2)

RECURSIVE PrdLoop(_, _)
PrdLoop(L, g) == IF L.n = 0 \/ L.null THEN L ELSE PrdLoop(PrdIter(L, g), g)

\* process_response_data(dcb, &readbuf, nbytes_to_process): the value holds
\* the state, what is left in readbuf, the returned buffer and whether its
\* last link was tagged RESPONSE_END.
process_response_data(s, readbuf, nbytes, g) ==
    PrdLoop([s |-> s, readbuf |-> readbuf, n |-> nbytes, np |-> 0, nb |-> 0,
             outbuf |-> <<>>, ip |-> 0, ib |-> 0, isend |-> FALSE,
             null |-> FALSE], g)

sescmd_response_complete(s) == s.cursor.np = 0

\* ------------------------------------------------------- authenticated read
session_ok_to_route(s) ==
    s.session_state = "ROUTER_READY"

expecting_resultset(s) ==
    s.current_command \in {"COM_QUERY", "COM_STMT_FETCH"}

\* mxs_mysql_is_result_set: the first packet is none of OK, ERR, EOF,
\* LOCAL_INFILE.
MYSQL_REPLY_LOCAL_INFILE == 251
mxs_mysql_is_result_set(f) ==
    Len(f) > MYSQL_HEADER_LEN
    /\ f[5] \notin {MYSQL_REPLY_OK, MYSQL_REPLY_ERR, MYSQL_REPLY_EOF,
                    MYSQL_REPLY_LOCAL_INFILE}

\* modutil_count_signal_packets: the EOF and ERR packets of the buffer.
modutil_count_signal_packets(f) ==
    LET ps == Packets(f)
    IN  Cardinality({i \in 1..Len(ps) :
                       \/ ps[i][5] = MYSQL_REPLY_ERR
                       \/ (ps[i][5] = MYSQL_REPLY_EOF
                           /\ Len(ps[i]) <= MYSQL_EOF_PACKET_LEN)})

\* send_mysql_native_password_response: the password scrambled with the
\* protocol's scramble is written to the backend.
send_mysql_native_password_response(s, wok) ==
    dcb_write(s, <<DriverPkt("native", "AuthSwitchResponse", FALSE,
                             s.scramble, "-")>>, wok)

\* gwbuf_free(query) of the buffer taken from stored_query.
FreeQuery(s, query, qfreed) ==
    [s EXCEPT !.mem_error = @ \/ (query # <<>> /\ qfreed),
              !.sq_freed = IF query # <<>> /\ s.stored_query = query
                           THEN TRUE ELSE @]

\* The reply is taken for consumed but the protocol keeps its pointer.
TakeStoredQueryKeeps(s) == [s EXCEPT !.ignore_reply = FALSE]

\* Lines 748-750: the stored query is taken out of the protocol.
TakeStoredQuery(s) ==
    [s EXCEPT !.stored_query = <<>>, !.ignore_reply = FALSE,
              !.sq_freed = FALSE]

\* The scramble of the AuthSwitchRequest is not taken over.
LoadScrambleKeeps(s, reply) == s

\* gwbuf_copy_data(reply, 5 + strlen(plugin) + 1, GW_MYSQL_SCRAMBLE_SIZE,
\* proto->scramble): the scramble that follows the plugin name.
LoadScramble(s, reply) == [s EXCEPT !.scramble = reply[8]]

\* The reply to the COM_CHANGE_USER is handed to the router.
ReplyToChangeUserRoutes(s, read_buffer, in) ==
    clientReply([s EXCEPT !.ignore_reply = FALSE], read_buffer, TRUE)

\* The reply to a COM_CHANGE_USER is in read_buffer.
ReplyToChangeUser(s, read_buffer, in) ==
    LET query == s.stored_query
        qfreed == s.sq_freed
        s1 == TakeStoredQuery(s)
        ps == Packets(Flat(read_buffer))
        reply == ps[Len(ps)]
        result == ByteAt(reply, 5, in.g)
    IN  IF result = MYSQL_REPLY_OK
        THEN IF query # <<>>
             THEN gw_MySQLWrite_backend(
                      [s1 EXCEPT !.mem_error = @ \/ qfreed], query, in.wok)
             ELSE [s1 EXCEPT !.rc = 1]
        ELSE IF result = MYSQL_REPLY_AUTHSWITCHREQUEST
                /\ Len(reply) > MYSQL_EOF_PACKET_LEN
             THEN IF reply[6] = DEFAULT_MYSQL_AUTH_PLUGIN
                  THEN LET s2 == send_mysql_native_password_response(
                                     LoadScramble(s1, reply), in.wok)
                       IN  [s2 EXCEPT !.stored_query = query,
                                      !.sq_freed = qfreed,
                                      !.ignore_reply = TRUE]
                  ELSE [poll_fake_hangup_event(FreeQuery(s1, query, qfreed))
                          EXCEPT !.rc = 0]
             ELSE LET s2 == IF result = MYSQL_REPLY_ERR
                            THEN handle_error_response(s1, reply) ELSE s1
                  IN  [poll_fake_hangup_event(FreeQuery(s2, query, qfreed))
                         EXCEPT !.rc = 0]

\* clientReply, or gwbuf_free when the session is closing.
Route(s, stmt, isend) ==
    IF session_ok_to_route(s)
    THEN [clientReply(s, stmt, isend) EXCEPT
            !.rc = 1,
            !.ends = IF isend THEN Append(@, ByteAt(Flat(stmt), 4, 0)) ELSE @]
    ELSE s

\* do { ... } while (read_buffer)
RECURSIVE RouteLoop(_, _, _)
RouteLoop(s, read_buffer, in) ==
    IF protocol_get_srv_command(s) # "COM_UNDEFINED"
    THEN LET p == process_response_data(s, read_buffer,
                                        gwbuf_length(read_buffer), in.g)
         IN  IF ~sescmd_response_complete(p.s)
             THEN [p.s EXCEPT !.readqueue =
                                gwbuf_append(gwbuf_append(p.outbuf, p.readbuf),
                                             @),
                              !.rc = 0]
             ELSE IF p.outbuf = <<>>
                  THEN [p.s EXCEPT !.rc = 0]
                  ELSE LET s1 == Route(p.s, p.outbuf, p.isend)
                       IN  IF p.readbuf # <<>>
                           THEN RouteLoop(s1, p.readbuf, in) ELSE s1
    ELSE IF "STMT_OUTPUT" \in s.caps /\ "RESULTSET_OUTPUT" \notin s.caps
         THEN LET n == modutil_get_next_MySQL_packet(read_buffer)
                  s1 == Route(s, n.packet, FALSE)
              IN  IF n.rest # <<>> THEN RouteLoop(s1, n.rest, in) ELSE s1
         ELSE Route(s, read_buffer, FALSE)

\* Lines 745-886: the reply goes to the change-user handling or the router.
ReadDispatch(s, read_buffer, in) ==
    IF s.ignore_reply THEN ReplyToChangeUser(s, read_buffer, in)
    ELSE RouteLoop(s, read_buffer, in)

\* Lines 703-743: whole packets, contiguous, whole result sets.
ReadFramed(s, buf, in) ==
    IF "STMT_OUTPUT" \in s.caps \/ s.ignore_reply
    THEN LET c == modutil_get_complete_packets(buf)
             s1 == [s EXCEPT !.readqueue = c.rest]
         IN  IF c.packets = <<>> THEN [s1 EXCEPT !.rc = 0]
             ELSE IF "CONTIGUOUS_OUTPUT" \in s.caps \/ s.ignore_reply
                  THEN LET rb == gwbuf_make_contiguous(c.packets)
                       IN  IF "RESULTSET_OUTPUT" \in s.caps
                              /\ expecting_resultset(s1)
                              /\ mxs_mysql_is_result_set(Flat(rb))
                              /\ modutil_count_signal_packets(Flat(rb)) # 2
                           THEN [s1 EXCEPT !.readqueue = rb, !.rc = 0]
                           ELSE ReadDispatch(s1, rb, in)
                  ELSE ReadDispatch(s1, c.packets, in)
    ELSE ReadDispatch(s, buf, in)

gw_read_and_write(s, in) ==
    IF ~in.rdok
    THEN LET s1 == handleError(s, "ERRACT_NEW_CONNECTION", in.succp)
         IN  [s1 EXCEPT !.session_state = IF in.succp THEN @ ELSE "STOPPING",
                        !.rc = 0]
    ELSE LET r == dcb_read(s, in.k)
         IN  IF gwbuf_length(r.buf) = 0 THEN [r.s EXCEPT !.rc = 0]
             ELSE ReadFramed(r.s, r.buf, in)

gw_read_backend_event(s, in) ==
    IF s.persistentstart
    THEN [s EXCEPT !.errhandle_called = TRUE, !.rc = 0]
    ELSE IF s.dcb_state = "NOPOLLING" \/ s.session_state = "DUMMY"
         THEN [s EXCEPT !.rc = 0]
         ELSE IF s.auth_state = "COMPLETE"
              THEN gw_read_and_write(s, in)
              ELSE ReadAuth(s, in)

\* ------------------------------------------------------- other entry points
\* The file descriptor open_network_socket gives the new socket.
SocketFd == 7

\* What the system calls of a connect can return: open_network_socket a
\* socket or -1, connect 0 or -1 with errno; results that are not
\* consulted take one value.
ConnectResults ==
    { c \in [so : {SocketFd, -1}, rv : {0, -1},
             errno : {"-", "EINPROGRESS", "ECONNREFUSED"}] :
        /\ c.so = -1 => (c.rv = 0 /\ c.errno = "-")
        /\ c.rv = 0 <=> c.errno = "-" }

\* Every failure of connect is taken for a connect in progress.
gw_do_connect_to_backend_pending(s, c) ==
    IF c.so = -1
    THEN [s |-> [s EXCEPT !.calls = @ \o <<[op |-> "open_network_socket",
                                            so |-> c.so]>>],
          rv |-> -1, fd |-> -1]
    ELSE [s |-> [s EXCEPT !.calls =
                   @ \o <<[op |-> "open_network_socket", so |-> c.so],
                          [op |-> "connect", rv |-> c.rv,
                           errno |-> c.errno]>>],
          rv |-> IF c.rv = 0 THEN 0 ELSE 1, fd |-> c.so]

\* gw_do_connect_to_backend: the value is the state, the returned rv and
\* the fd stored through the pointer (-1 when it is not stored).
gw_do_connect_to_backend(s, c) ==
    LET s1 == [s EXCEPT !.calls = @ \o <<[op |-> "open_network_socket",
                                          so |-> c.so]>>]
        s2 == [s1 EXCEPT !.calls = @ \o <<[op |-> "connect", rv |-> c.rv,
                                           errno |-> c.errno]>>]
    IN  IF c.so = -1
        THEN [s |-> s1, rv |-> -1, fd |-> -1]
        ELSE IF c.rv # 0
             THEN IF c.errno = "EINPROGRESS"
                  THEN [s |-> s2, rv |-> 1, fd |-> c.so]
                  ELSE [s |-> [s2 EXCEPT !.calls =
                                 @ \o <<[op |-> "close", fd |-> c.so]>>],
                        rv |-> c.rv, fd |-> -1]
             ELSE [s |-> s2, rv |-> c.rv, fd |-> c.so]

\* gw_create_backend_connection: the state set from the rv of
\* gw_do_connect_to_backend, the fd returned.
gw_create_backend_connection(s, c) ==
    LET r == gw_do_connect_to_backend(s, c)
    IN  [r.s EXCEPT !.auth_state = CASE r.rv = 0 -> "CONNECTED"
                                     [] r.rv = 1 -> "PENDING_CONNECT"
                                     [] OTHER -> "INIT",
                    !.rc = r.fd]

\* What gw_write_backend_event finds in dcb->writeq, the queue of bytes
\* the socket did not take: nothing, a COM_QUIT or other data.
WriteqHeads == {"none", "COM_QUIT", "data"}

\* The connection is taken for established whatever its state.
gw_write_backend_event_any(s, wq) ==
    [s EXCEPT !.auth_state = "CONNECTED", !.rc = 1]

\* The write queue is drained whatever the state.
gw_write_backend_event_drains(s, wq) ==
    [s EXCEPT !.auth_state = IF @ = "PENDING_CONNECT" THEN "CONNECTED" ELSE @,
              !.calls = @ \o <<[op |-> "dcb_drain_writeq"]>>,
              !.rc = 1]

gw_write_backend_event(s, wq) ==
    IF s.dcb_state # "POLLING"
    THEN IF wq # "none"
         THEN [s EXCEPT !.rc = 0,
                        !.calls = IF wq # "COM_QUIT"
                                  THEN @ \o <<[op |-> "mysql_send_custom_error"]>>
                                  ELSE @]
         ELSE [s EXCEPT !.rc = 1]
    ELSE IF s.auth_state = "PENDING_CONNECT"
         THEN [s EXCEPT !.auth_state = "CONNECTED", !.rc = 1]
         ELSE [s EXCEPT !.calls = @ \o <<[op |-> "dcb_drain_writeq"]>>,
                        !.rc = 1]

\* dcb_close of a DCB that does not go to the pool: it leaves the poll set.
dcb_close(s) == [s EXCEPT !.dcb_state = "NOPOLLING"]

\* The tail shared by the error and the hangup handler.
LostConnection(s, succp) ==
    IF s.session_state # "ROUTER_READY" THEN [s EXCEPT !.rc = 1]
    ELSE LET s1 == handleError(s, "ERRACT_NEW_CONNECTION", succp)
         IN  [s1 EXCEPT !.session_state = IF succp THEN @ ELSE "STOPPING",
                        !.rc = 1]

gw_error_backend_event(s, succp) ==
    IF s.session_state = "DUMMY" THEN [dcb_close(s) EXCEPT !.rc = 1]
    ELSE IF s.dcb_state # "POLLING" THEN [s EXCEPT !.rc = 1]
    ELSE LostConnection(s, succp)

\* The hangup of a pooled connection is handled like any other.
gw_backend_hangup_unpooled(s, succp) == LostConnection(s, succp)

gw_backend_hangup(s, succp) ==
    IF s.persistentstart
    THEN [s EXCEPT !.errhandle_called = TRUE, !.rc = 1]
    ELSE LostConnection(s, succp)

\* gw_send_change_user_to_backend: the packet is built from the session
\* and handed to the write entry point.
gw_send_change_user_to_backend(s, wok) ==
    LET buffer == [i \in {1} |-> [gw_create_change_user_packet(s)[1]
                                    EXCEPT !.id = s.nwrites]]
        s1 == gw_MySQLWrite_backend(s, buffer, wok)
    IN  [s1 EXCEPT !.rc = IF @ # 0 THEN 1 ELSE 0]

\* dcb->authfunc.reauthenticate, and service_refresh_users, with the
\* value each returns.
reauthenticate(s, ret) ==
    [s EXCEPT !.calls = Append(@, [op |-> "reauthenticate", db |-> s.mses.db,
                                   ret |-> ret])]
service_refresh_users(s, ok) ==
    [s EXCEPT !.calls = Append(@, [op |-> "refresh", ok |-> ok]),
              !.refreshes = @ + 1]

\* The second attempt is made whatever the refresh returned.
ChangeUserAuthRetries(s, in) ==
    LET s1 == reauthenticate([s EXCEPT !.mses.db = ""], in.a1)
        s2 == [s1 EXCEPT !.mses.db = s.mses.db]
    IN  IF in.a1 = 0 THEN [s |-> s2, auth_ret |-> 0]
        ELSE LET s3 == service_refresh_users(s2, in.rfok)
                 s4 == reauthenticate([s3 EXCEPT !.mses.db = ""], in.a2)
             IN  [s |-> [s4 EXCEPT !.mses.db = s.mses.db],
                  auth_ret |-> in.a2]

\* modutil_reply_auth_error: an ERR packet is made to look like the
\* backend's reply.
modutil_reply_auth_error(s) ==
    [s EXCEPT !.fakeq = @ \o ErrPkt(0, ER_ACCESS_DENIED_ERROR)]

\* Lines 1582-1614: local re-authentication, once more after a refresh.
\* The value holds the state and auth_ret.
ChangeUserAuth(s, in) ==
    LET s1 == reauthenticate([s EXCEPT !.mses.db = ""], in.a1)
        s2 == [s1 EXCEPT !.mses.db = s.mses.db]
    IN  IF in.a1 = 0 THEN [s |-> s2, auth_ret |-> 0]
        ELSE LET s3 == service_refresh_users(s2, in.rfok)
             IN  IF in.rfok
                 THEN LET s4 == reauthenticate([s3 EXCEPT !.mses.db = ""],
                                               in.a2)
                      IN  [s |-> [s4 EXCEPT !.mses.db = s.mses.db],
                           auth_ret |-> in.a2]
                 ELSE [s |-> s3, auth_ret |-> in.a1]

\* gw_change_user: a COM_CHANGE_USER of the client for the user NewUser.
gw_change_user(s, in) ==
    IF ~in.hasreauth
    THEN [s EXCEPT !.mses.db = "", !.rc = 0]
    ELSE LET r == ChangeUserAuth(s, in)
         IN  IF r.auth_ret # 0
             THEN IF ~in.msgok THEN [r.s EXCEPT !.rc = 0]
                  ELSE [modutil_reply_auth_error(
                            protocol_add_srv_command(r.s, "COM_CHANGE_USER"))
                          EXCEPT !.rc = 1]
             ELSE gw_send_change_user_to_backend(
                      [r.s EXCEPT !.mses = NewUser], in.wok)

\* mysql_protocol_done: the protocol's buffers are freed.
mysql_protocol_done(s) ==
    LET s1 == IF s.stored_query # <<>> THEN FreeStoredQuery(s) ELSE s
    IN  [s1 EXCEPT !.stored_query = <<>>, !.sq_freed = FALSE,
                   !.ignore_reply = FALSE, !.cmdq = <<>>,
                   !.cursor = [np |-> 0, nb |-> 0, cmd |-> "COM_UNDEFINED"]]

\* mysql_send_com_quit: the packet is handed to the write entry point of
\* the DCB (dcb->func.write).
mysql_send_com_quit(s, quitbuf, wok) == gw_MySQLWrite_backend(s, quitbuf, wok)

\* The client DCB of a stopping session is left alone.
CloseClientNever(s, cpoll) == s

\* Lines 1391-1398: the client DCB is closed when the session is stopping
\* and the client DCB is still polled (cpoll); the state of the client DCB
\* is read only for a stopping session.
CloseClient(s, cpoll) ==
    IF s.session_state = "STOPPING"
    THEN [s EXCEPT !.calls = @ \o <<[op |-> "client_dcb_state",
                                     polling |-> cpoll]>>
                              \o (IF cpoll THEN <<[op |-> "dcb_close_client"]>>
                                  ELSE <<>>)]
    ELSE s

\* gw_backend_close: COM_QUIT is sent, the protocol released and the client
\* DCB of a stopping session closed.
gw_backend_close(s, wok, cpoll) ==
    LET quitbuf == <<DriverPkt("close", "COM_QUIT", FALSE, 0, "-")>>
        s1 == mysql_send_com_quit(s, quitbuf, wok)
    IN  [CloseClient(mysql_protocol_done(s1), cpoll) EXCEPT !.rc = 1]

\* gw_connection_established: may the DCB go to the persistent pool?
gw_connection_established(s) ==
    s.auth_state = "COMPLETE" /\ ~s.ignore_reply /\ s.stored_query = <<>>

\* ------------------------------------------------------- host
\* dcb_maybe_add_persistent: the conditions under which dcb_close puts the
\* DCB into the pool instead of closing it.
Poolable(s) ==
    /\ s.persistpoolmax # 0
    /\ s.dcb_state = "POLLING"
    /\ ~s.errhandle_called
    /\ ~s.hung
    /\ gw_connection_established(s)

\* The DCB enters the pool: it loses its session and its buffered data.
EnterPool(s) ==
    [s EXCEPT !.persistentstart = TRUE, !.was_persistent = FALSE,
              !.session_state = "DUMMY", !.readqueue = <<>>,
              !.fakeq = <<>>, !.delayq = <<>>]

\* The DCB leaves the pool for a new session.
LeavePool(s) ==
    [s EXCEPT !.persistentstart = FALSE, !.was_persistent = TRUE,
              !.session_state = "ROUTER_READY", !.mses = OldUser,
              !.cycles = @ + 1]

\* The configurations of server and router the model runs under: a plain
\* server without a pool behind a router that takes the bytes as they
\* come, and an SSL server with a pool behind a router that takes whole
\* packets in contiguous buffers.
Configs ==
    { [pool |-> 0, ssl |-> FALSE, caps |-> {}],
      [pool |-> 1, ssl |-> TRUE,
       caps |-> {"STMT_OUTPUT", "CONTIGUOUS_OUTPUT"}] }

\* ------------------------------------------------------- initial state
\* The connection as gw_create_backend_connection finds it.
NewConnection ==
    /\ auth_state = "INIT"
    /\ dcb_state = "ALLOC"
    /\ ssl_state = "UNKNOWN"
    /\ persistentstart = FALSE
    /\ was_persistent = FALSE
    /\ errhandle_called = FALSE
    /\ ignore_reply = FALSE
    /\ stored_query = <<>>
    /\ sq_freed = FALSE
    /\ mem_error = FALSE
    /\ delayq = <<>>
    /\ readqueue = <<>>
    /\ cmdq = <<>>
    /\ cursor = [np |-> 0, nb |-> 0, cmd |-> "COM_UNDEFINED"]
    /\ scramble = 0
    /\ current_command = "COM_UNDEFINED"
    /\ client_command = "COM_UNDEFINED"
    /\ session_state = "ROUTER_READY"
    /\ socket = <<>>
    /\ wire = <<>>
    /\ calls = <<>>
    /\ ends = <<>>
    /\ fake_hangup = FALSE
    /\ rc = 0
    /\ last = "init"
    /\ server_maint = FALSE
    /\ refreshes = 0
    /\ \E c \in Configs : /\ persistpoolmax = c.pool
                           /\ server_ssl = c.ssl
                           /\ caps = c.caps
    /\ greeted = FALSE
    /\ peer_closed = FALSE
    /\ hung = FALSE
    /\ npartial = 0
    /\ mses = OldUser
    /\ fakeq = <<>>
    /\ nwrites = 0
    /\ cycles = 0

\* No COM_CHANGE_USER is being built.
NoPacket == [in |-> <<>>, out |-> <<>>]

\* The bug359 test is not running.
NoTest == [in |-> <<>>, out |-> <<>>]

Init ==
    /\ NewConnection
    /\ packet = NoPacket
    /\ test = NoTest

\* ------------------------------------------------------- actions
\* A read yields all the bytes on the wire or a fragment of one of these
\* sizes: a header and one byte, one short packet, one short packet and a
\* byte of the next header.
ReadSizes == {5, 7, 8}

\* dcb_write fails only on a connection the peer has closed.
WriteResults == IF peer_closed THEN BOOLEAN ELSE {TRUE}

\* The router connects the backend; on success the host adds the DCB to
\* the poll set.
Connect ==
    /\ dcb_state = "ALLOC"
    /\ \E c \in ConnectResults :
         LET t == gw_create_backend_connection(Enter(Cur, "connect"), c)
         IN  Commit([t EXCEPT !.dcb_state = IF t.rc = -1 THEN "DISCONNECTED"
                                            ELSE "POLLING"])

\* EPOLLOUT: the pending connect has completed or the socket takes again
\* bytes of packets the server has not consumed yet.  A DCB outside the
\* poll set gets the event only when it was already on its way as
\* dcb_close took the DCB out.  The write queue is looked at only on a DCB
\* outside the poll set.
WriteReady ==
    /\ dcb_state \in {"POLLING", "NOPOLLING"}
    /\ auth_state = "PENDING_CONNECT" \/ socket # <<>>
    /\ dcb_state = "NOPOLLING" => last = "dcb_close"
    /\ \E wq \in (IF dcb_state = "POLLING" THEN {"none"} ELSE WriteqHeads) :
         Commit(gw_write_backend_event(Enter(Cur, "write_ready"), wq))

\* The router hands one buffer to the write entry point of a DCB it holds
\* open; a client that has sent COM_QUIT sends nothing more.
Write ==
    /\ dcb_state = "POLLING"
    /\ ~persistentstart
    /\ client_command # "COM_QUIT"
    /\ nwrites < MaxWrites
    /\ \E kind \in ClientKinds, wok \in WriteResults :
         LET s0 == [Enter(Cur, "write") EXCEPT !.nwrites = @ + 1,
                                               !.client_command = kind.cmd]
         IN  Commit(gw_MySQLWrite_backend(
                        s0, <<ClientPkt(nwrites + 1, kind.cmd, kind.sescmd)>>,
                        wok))

\* The client changes the user: the router calls the auth entry point.
\* An input that the call does not consult takes one value only.
ChangeUserInputs ==
    { in \in [hasreauth : BOOLEAN, a1 : {0, 1}, rfok : BOOLEAN, a2 : {0, 1},
              msgok : BOOLEAN, wok : WriteResults] :
        LET retried == in.hasreauth /\ in.a1 # 0 /\ in.rfok
            failed == in.hasreauth /\ in.a1 # 0 /\ (in.rfok => in.a2 # 0)
        IN  /\ in.hasreauth \/ in.a1 = 0
            /\ in.a1 # 0 \/ in.rfok
            /\ retried \/ in.a2 = 0
            /\ failed \/ in.msgok
            /\ (in.hasreauth /\ ~failed) \/ in.wok }

ChangeUser ==
    /\ dcb_state = "POLLING"
    /\ ~persistentstart
    /\ client_command # "COM_QUIT"
    /\ nwrites < MaxWrites
    /\ \E in \in ChangeUserInputs :
         LET s0 == [Enter(Cur, "change_user") EXCEPT
                      !.nwrites = @ + 1,
                      !.client_command = "COM_CHANGE_USER"]
         IN  Commit(gw_change_user(s0, in))

\* Does a readable event that reads k bytes hand a packet to the
\* authenticator?  It does when the bytes complete a packet that is no ERR.
AuthenticatorConsulted(k) ==
    LET buf == (IF readqueue # <<>> THEN Flat(readqueue) ELSE fakeq)
                   \o SubSeq(wire, 1, k)
        f == SubSeq(buf, 1, CompleteLen(buf))
    IN  f # <<>> /\ ~is_error_response(f)

\* The inputs of a readable event: the number of bytes the socket yields,
\* whether the read succeeds, and the answers of the collaborators.
\* An input that the call does not consult takes one value only.
ReadInputs ==
    UNION
      { { in \in
            [k : {k},
             rdok : IF peer_closed THEN BOOLEAN ELSE {TRUE},
             wok : IF auth_state # "COMPLETE" \/ ignore_reply
                   THEN WriteResults ELSE {TRUE},
             succp : IF auth_state = "COMPLETE" /\ ~peer_closed
                     THEN {TRUE} ELSE BOOLEAN,
             ext : IF auth_state = "RESPONSE_SENT"
                      /\ AuthenticatorConsulted(k)
                   THEN {"SUCCEEDED", "INCOMPLETE", "FAILED"}
                   ELSE {"SUCCEEDED"},
             auth : IF auth_state = "RESPONSE_SENT"
                       /\ AuthenticatorConsulted(k)
                    THEN AuthRcs ELSE {"SUCCEEDED"},
             g : IF auth_state = "COMPLETE" /\ (cmdq # <<>> \/ ignore_reply)
                 THEN {0, 255} ELSE {0}] :
            /\ in.rdok \/ (in.wok /\ in.ext = "SUCCEEDED"
                               /\ in.auth = "SUCCEEDED" /\ in.g = 0
                               /\ in.k = Len(wire))
            /\ (auth_state = "COMPLETE" /\ in.rdok) => in.succp
            /\ in.ext = "FAILED" => in.auth = "SUCCEEDED" } :
        k \in IF wire = <<>> THEN {0}
              ELSE {n \in ReadSizes : n < Len(wire) /\ npartial < MaxPartial}
                   \cup {Len(wire)} }

Readable ==
    /\ dcb_state = "POLLING"
    /\ \/ wire # <<>>
       \/ fakeq # <<>>
       \/ peer_closed
       \/ ssl_state = "HANDSHAKE_REQUIRED"
    /\ \E in \in ReadInputs :
         LET s0 == [Enter(Cur, "read") EXCEPT
                      !.npartial = IF in.k < Len(wire) THEN @ + 1 ELSE @,
                      !.ssl_state = IF @ = "HANDSHAKE_REQUIRED" /\ in.k = 0
                                    THEN "ESTABLISHED" ELSE @]
         IN  Commit(gw_read_backend_event(s0, in))

\* EPOLLHUP, raised by the peer or by poll_fake_hangup_event; the host
\* delivers it once, to a DCB outside the poll set only when it was already
\* on its way as dcb_close took the DCB out.
Hangup ==
    /\ dcb_state \in {"POLLING", "NOPOLLING"}
    /\ dcb_state = "NOPOLLING" => last = "dcb_close"
    /\ fake_hangup \/ peer_closed
    /\ ~hung
    /\ \E succp \in BOOLEAN :
         Commit([gw_backend_hangup(Enter(Cur, "hangup"), succp)
                   EXCEPT !.hung = TRUE, !.fake_hangup = FALSE])

\* EPOLLERR on a broken connection, delivered like EPOLLHUP.
Error ==
    /\ dcb_state \in {"POLLING", "NOPOLLING"}
    /\ dcb_state = "NOPOLLING" => last = "dcb_close"
    /\ peer_closed
    /\ ~hung
    /\ \E succp \in BOOLEAN :
         Commit([gw_error_backend_event(Enter(Cur, "error"), succp)
                   EXCEPT !.hung = TRUE])

\* dcb_close by the router or the session: the DCB goes to the pool, or
\* leaves the poll set to be closed.
DcbClose ==
    /\ dcb_state = "POLLING"
    /\ ~persistentstart
    /\ Commit(IF Poolable(Cur) THEN EnterPool(Enter(Cur, "pool"))
              ELSE dcb_close(Enter(Cur, "dcb_close")))

\* The close entry point, called for a DCB that left the poll set; the host
\* then frees the DCB and its queues.
Close ==
    /\ dcb_state = "NOPOLLING"
    /\ \E wok \in WriteResults,
          cpoll \in (IF session_state = "STOPPING" THEN BOOLEAN ELSE {TRUE}) :
         Commit([gw_backend_close(Enter(Cur, "close"), wok, cpoll)
                   EXCEPT !.dcb_state = "DISCONNECTED", !.delayq = <<>>,
                          !.readqueue = <<>>, !.fakeq = <<>>])

\* A new session takes the DCB out of the pool.
PoolDequeue ==
    /\ persistentstart
    /\ ~errhandle_called
    /\ cycles < MaxCycles
    /\ socket = <<>> /\ wire = <<>>
    /\ Commit(LeavePool(Enter(Cur, "dequeue")))

\* The server greets a new connection with its handshake or an error.
ServerGreet ==
    /\ dcb_state = "POLLING"
    /\ ~greeted
    /\ ~peer_closed
    /\ \E p \in {HandshakePkt(1), ErrPkt(0, ER_HOST_IS_BLOCKED),
                 ErrPkt(0, ER_ACCESS_DENIED_ERROR), ErrPkt(0, 1040)} :
         /\ wire' = wire \o p
         /\ greeted' = TRUE
    /\ UNCHANGED <<auth_state, dcb_state, ssl_state, persistentstart,
                   was_persistent, errhandle_called, ignore_reply,
                   stored_query, sq_freed, mem_error, delayq, readqueue, cmdq,
                   cursor, scramble, current_command, client_command,
                   session_state, socket, calls, ends, fake_hangup, rc, last,
                   server_maint, refreshes, persistpoolmax, server_ssl, caps,
                   peer_closed, hung, npartial, nwrites, cycles, mses, fakeq,
                   packet, test>>

\* The sequence byte of the packets that answer p tells which packet they
\* answer; no other byte of a reply has such a value.
Tag(p) == IF p.id = 0 THEN 0 ELSE 200 + p.id

\* What the server may answer to the packet p.
ServerReplies(p) ==
    CASE p.origin = "auth" ->
           {OkPkt(0), ErrPkt(0, ER_ACCESS_DENIED_ERROR), AuthMoreDataPkt}
      [] p.origin = "native" -> {OkPkt(0), ErrPkt(0, ER_ACCESS_DENIED_ERROR)}
      [] p.cmd = "COM_CHANGE_USER" ->
           {OkPkt(Tag(p)), ErrPkt(Tag(p), ER_ACCESS_DENIED_ERROR),
            AuthSwitchPkt(DEFAULT_MYSQL_AUTH_PLUGIN, 2),
            AuthSwitchPkt(OTHER_AUTH_PLUGIN, 2)}
      [] p.cmd = "COM_STMT_PREPARE" ->
           {ErrPkt(Tag(p), 1064),
            PrepareOkPkt(Tag(p), 1, 0) \o FieldDefPkt(Tag(p))
                \o EofPkt(Tag(p))}
      [] p.cmd = "COM_QUERY" -> {OkPkt(Tag(p)), ErrPkt(Tag(p), 1064)}
      [] OTHER -> {<<>>}

\* The server takes the next packet from the socket and answers it; a
\* COM_QUIT makes it close the connection.  What it answers to a DCB
\* outside the poll set nobody reads.
ServerReply ==
    /\ socket # <<>>
    /\ dcb_state = "POLLING"
    /\ ~peer_closed
    /\ \E r \in ServerReplies(Head(socket)) :
         /\ wire' = wire \o r
         /\ socket' = Tail(socket)
         /\ peer_closed' = (Head(socket).cmd = "COM_QUIT")
    /\ UNCHANGED <<auth_state, dcb_state, ssl_state, persistentstart,
                   was_persistent, errhandle_called, ignore_reply,
                   stored_query, sq_freed, mem_error, delayq, readqueue, cmdq,
                   cursor, scramble, current_command, client_command,
                   session_state, calls, ends, fake_hangup, rc, last,
                   server_maint, refreshes, persistpoolmax, server_ssl, caps,
                   greeted, hung, npartial, nwrites, cycles, mses, fakeq,
                   packet, test>>

\* The server drops the connection after it has answered the handshake
\* response, while the driver still authenticates.
ServerClose ==
    /\ dcb_state = "POLLING"
    /\ ~persistentstart
    /\ ~peer_closed
    /\ auth_state = "RESPONSE_SENT"
    /\ socket = <<>>
    /\ peer_closed' = TRUE
    /\ UNCHANGED <<auth_state, dcb_state, ssl_state, persistentstart,
                   was_persistent, errhandle_called, ignore_reply,
                   stored_query, sq_freed, mem_error, delayq, readqueue, cmdq,
                   cursor, scramble, current_command, client_command,
                   session_state, socket, wire, calls, ends, fake_hangup, rc,
                   last, server_maint, refreshes, persistpoolmax, server_ssl,
                   caps, greeted, hung, npartial, nwrites, cycles, mses,
                   fakeq, packet,
                   test>>

Next ==
    \/ Connect
    \/ WriteReady
    \/ Write
    \/ ChangeUser
    \/ Readable
    \/ Hangup
    \/ Error
    \/ DcbClose
    \/ Close
    \/ PoolDequeue
    \/ ServerGreet
    \/ ServerReply
    \/ ServerClose

Spec == Init /\ [][Next]_vars

\* ------------------------------------------------------- properties
\* The packets the step put on the socket, and the steps of the handlers.
\* A handler never takes a packet from the socket and the server always
\* does.
Emitted == SubSeq(socket', Len(socket) + 1, Len(socket'))
ReadStep == last' = "read" /\ Len(socket') >= Len(socket)
                /\ Len(wire') <= Len(wire) /\ greeted' = greeted
                /\ peer_closed' = peer_closed
Payloads(q) == [i \in DOMAIN q |-> [id |-> q[i].id, cmd |-> q[i].cmd]]

C2_DelayOrdering ==
    [][(/\ auth_state # "COMPLETE"
        /\ auth_state' = "COMPLETE"
        /\ rc' # 0
        /\ \A i \in DOMAIN delayq : delayq[i].cmd # "COM_QUIT")
       => Payloads(Emitted) = Payloads(delayq)]_vars

\* C3: no COM_QUIT handed to write reaches the socket of a server that has
\* a persistent pool.
C3_PoolQuitSafety ==
    persistpoolmax > 0
        => \A i \in DOMAIN socket :
               ~(socket[i].origin = "client" /\ socket[i].cmd = "COM_QUIT")

\* The bytes the step read from the socket, and the buffer the readable
\* handler then works on.
ReadBytes == SubSeq(wire, 1, Len(wire) - Len(wire'))
ReadBuf == Flat(readqueue) \o ReadBytes

\* The response tracker runs on what the readable event reads.
TrackerRead ==
    /\ ReadStep
    /\ auth_state = "COMPLETE"
    /\ dcb_state = "POLLING"
    /\ ~persistentstart
    /\ session_state # "DUMMY"
    /\ ~ignore_reply
    /\ cmdq # <<>>
    /\ fakeq = <<>>

\* C4: when the response tracker ends a readable event without a complete
\* response (no callback made, packets still awaited), the read queue holds
\* what it held before followed by the bytes just read, and a count that was
\* in progress is unchanged.
C4_AtomicFraming ==
    [][(TrackerRead /\ calls' = <<>> /\ cursor'.np # 0)
       => /\ Flat(readqueue') = ReadBuf
          /\ cursor.np # 0 => (cursor'.np = cursor.np
                               /\ cursor'.nb = cursor.nb)]_vars

\* C5: the buffers tagged RESPONSE_END reach clientReply in the order in
\* which the session commands they answer were handed to the backend: the
\* end of the reply to a command is never delivered after the end of the
\* reply to a command written later.
ValidTags == {200 + n : n \in 1..MaxWrites}
C5_ResponseFifo ==
    \A i, j \in DOMAIN ends :
        (i < j /\ ends[i] \in ValidTags /\ ends[j] \in ValidTags)
            => ends[i] <= ends[j]

\* The replies to two session commands were delivered, the server's bytes
\* having been read in fragments.
C5_Witness ==
    /\ Len(ends) = 2
    /\ ends[1] \in ValidTags /\ ends[2] \in ValidTags
    /\ ends[1] # ends[2]
    /\ npartial > 0

\* Steps of the hangup handler.
HangupStep == hung' /\ ~hung /\ last' = "hangup"

\* stored_query is set by the write that emits the COM_CHANGE_USER of a pool
\* re-attach and afterwards only grows; it is empty when ignore_reply is
\* cleared; no buffer is freed twice or used after it was freed.
StoredQueryCycle ==
    /\ ~mem_error'
    /\ (stored_query = <<>> /\ stored_query' # <<>>)
         => /\ was_persistent /\ ~was_persistent' /\ ignore_reply'
            /\ Len(Emitted) = 1 /\ Emitted[1].cmd = "COM_CHANGE_USER"
    /\ (stored_query # <<>> /\ stored_query' # <<>>)
         => /\ Len(stored_query') >= Len(stored_query)
            /\ SubSeq(stored_query', 1, Len(stored_query)) = stored_query
    /\ (ignore_reply /\ ~ignore_reply') => stored_query' = <<>>

\* C6 (as stated): stored_query is set once per pool re-attach cycle and
\* cleared when the cycle exits by OK, ERR or hangup; no double free.
C6_Original ==
    [][/\ StoredQueryCycle
       /\ (HangupStep /\ ignore_reply) => stored_query' = <<>>]_vars

\* C6 (amended): stored_query is set once per pool re-attach cycle, by the
\* write that emits COM_CHANGE_USER, and is cleared when the reply ends the
\* cycle (OK, ERR, unexpected AuthSwitchRequest); a hangup leaves it in place
\* until close releases the protocol; no buffer is freed twice or used after
\* it was freed.
C6_StoredQueryOnce ==
    [][/\ StoredQueryCycle
       /\ (HangupStep /\ ~persistentstart)
            => (stored_query' = stored_query
                /\ ignore_reply' = ignore_reply)]_vars

\* A re-attach cycle has ended with OK: the stored query is on the socket.
C6_Witness ==
    /\ cycles = 1
    /\ ~ignore_reply /\ stored_query = <<>>
    /\ \E i \in DOMAIN socket : socket[i].origin = "client"

\* C7: ignore_reply implies that auth_state is COMPLETE and that
\* stored_query holds the deferred payload.
C7_IgnoreReply ==
    ignore_reply => (auth_state = "COMPLETE" /\ stored_query # <<>>)

\* The reply to the COM_CHANGE_USER is awaited and a second payload was
\* deferred.
C7_Witness == ignore_reply /\ Len(stored_query) = 2

\* C8 (as stated): a non-empty delay queue implies auth_state is none of
\* COMPLETE, FAILED, HANDSHAKE_FAILED.
C8_Original ==
    delayq # <<>>
        => auth_state \notin {"COMPLETE", "FAILED", "HANDSHAKE_FAILED"}

\* C8 (amended): a non-empty delay queue implies auth_state is not COMPLETE
\* (the queue is emptied on the transition to COMPLETE); when authentication
\* fails the callbacks leave the queue in place and later writes are
\* refused, so it stays as it is until the DCB is closed.
C8_DelayQueue ==
    [][/\ delayq' # <<>> => auth_state' # "COMPLETE"
       /\ (auth_state \in {"FAILED", "HANDSHAKE_FAILED"}
           /\ dcb_state' # "DISCONNECTED" /\ ~persistentstart')
            => delayq' = delayq]_vars

\* The delay queue was flushed: a delayed client payload is on the socket
\* (no write was made since authentication completed).
C8_Witness ==
    /\ auth_state = "COMPLETE"
    /\ delayq = <<>>
    /\ cycles = 0
    /\ current_command = "COM_UNDEFINED"
    /\ \E i \in DOMAIN socket : socket[i].origin = "client"

\* C9: while packets of a response are awaited the list of session commands
\* is non-empty and its head is the command whose reply is counted.
C9_CursorHead ==
    cursor.np > 0 => (cmdq # <<>> /\ Head(cmdq) = cursor.cmd)

\* Packets of a reply are awaited after a readable event.
C9_Witness == cursor.np > 0 /\ last = "read" /\ readqueue # <<>>

\* C10: a complete ERR packet read while auth_state is CONNECTED moves
\* auth_state to HANDSHAKE_FAILED.
C10_HandshakeError ==
    [][(/\ ReadStep
        /\ auth_state = "CONNECTED"
        /\ dcb_state = "POLLING"
        /\ session_state # "DUMMY"
        /\ CompleteLen(ReadBuf) > 0
        /\ is_error_response(ReadBuf))
       => auth_state' = "HANDSHAKE_FAILED"]_vars

\* The buffer a readable event works on during authentication: the read
\* queue (or, when it is empty, the fake queue) and the bytes just read.
AuthReadBuf ==
    (IF readqueue # <<>> THEN Flat(readqueue) ELSE fakeq) \o ReadBytes

\* A readable event reads a complete ERR packet during authentication.
AuthErrRead ==
    /\ ReadStep
    /\ auth_state \in {"CONNECTED", "RESPONSE_SENT"}
    /\ dcb_state = "POLLING"
    /\ ~persistentstart
    /\ session_state # "DUMMY"
    /\ ~peer_closed
    /\ CompleteLen(AuthReadBuf) > 0
    /\ is_error_response(AuthReadBuf)

\* C11: on an ERR packet read during authentication the server is put into
\* maintenance exactly when the code is ER_HOST_IS_BLOCKED, the user list is
\* refreshed (once) exactly when the code is an access-denied code, and for
\* any other code neither happens.
C11_ErrSideEffects ==
    [][AuthErrRead
       => /\ server_maint'
               = (server_maint
                  \/ MYSQL_GET_ERRCODE(AuthReadBuf) = ER_HOST_IS_BLOCKED)
          /\ refreshes'
               = (IF MYSQL_GET_ERRCODE(AuthReadBuf) \in AccessDeniedCodes
                  THEN 1 ELSE 0)]_vars

\* An access-denied ERR was read during authentication: the users were
\* refreshed and the server was not put into maintenance.
C11_Witness ==
    /\ last = "read"
    /\ auth_state = "FAILED"
    /\ refreshes = 1
    /\ ~server_maint

\* C12: FAILED, HANDSHAKE_FAILED and COMPLETE are terminal: no step of any
\* entry point (and no pool re-attach) changes auth_state once it has one
\* of these values.
C12_Terminal ==
    [][(auth_state \in {"FAILED", "HANDSHAKE_FAILED", "COMPLETE"})
       => (auth_state' = auth_state)]_vars

\* A write was made on a connection whose authentication had failed.
C12_Witness ==
    /\ auth_state = "FAILED"
    /\ last = "write"
    /\ nwrites > 0

\* Steps of the error handler.
ErrorStep == hung' /\ ~hung /\ last' = "error"

\* The step called the router's error hook once, with NEW_CONNECTION, and
\* moved the session to STOPPING exactly when the hook found no successor.
LostConnectionHook ==
    \E b \in BOOLEAN :
        /\ calls' = <<[op |-> "handleError",
                       action |-> "ERRACT_NEW_CONNECTION", succp |-> b]>>
        /\ session_state' = (IF b THEN session_state ELSE "STOPPING")

\* C13: an error or hangup event on a connection in the active polling
\* state (in the poll set, not in the pool, its session ready for routing)
\* calls the router's error hook with NEW_CONNECTION and stops the session
\* exactly when the hook reports no successor; on a connection that is not
\* polling no hook is called.
C13_LostConnection ==
    [][(ErrorStep \/ HangupStep)
       => /\ (dcb_state = "POLLING" /\ ~persistentstart
              /\ session_state = "ROUTER_READY") => LostConnectionHook
          /\ dcb_state # "POLLING" => calls' = <<>>]_vars

\* The actions of the handleError calls the last handler made.
ErrorActions ==
    {calls[i].action : i \in {j \in DOMAIN calls : calls[j].op = "handleError"}}

PoolWrite ==
    /\ was_persistent
    /\ dcb_state = "POLLING"
    /\ auth_state = "COMPLETE"
    /\ nwrites' = nwrites + 1
    /\ \/ last' = "write" /\ client_command' # "COM_QUIT"
       \/ last' = "change_user" /\ mses' = NewUser

\* One COM_CHANGE_USER for the session's user, with the scramble of the
\* backend connection, has joined the socket.
EmitsChangeUser ==
    socket' = socket \o
        <<[id |-> 0, cmd |-> "COM_CHANGE_USER", sescmd |-> TRUE,
           origin |-> "change_user", scr |-> scramble, user |-> mses'.user,
           st |-> "COMPLETE"]>>

\* The buffer of this call is what stored_query holds.
StoresPayload ==
    /\ Len(stored_query') = 1
    /\ stored_query'[1].id = nwrites'
    /\ stored_query'[1].cmd = client_command'

\* C15 as stated: the first write that is no COM_QUIT on a polled,
\* authenticated connection with was_persistent emits a COM_CHANGE_USER
\* built from the session identity and the backend's scramble, moves the
\* payload into stored_query and sets ignore_reply.
C15_Original ==
    [][PoolWrite => (EmitsChangeUser /\ StoresPayload /\ ignore_reply')]_vars

\* C15: such a write emits the COM_CHANGE_USER, stores the payload and sets
\* ignore_reply when dcb_write accepts the packet; when dcb_write fails the
\* payload is freed, stored_query is empty, ignore_reply is false and the
\* call returns 0.
C15_PoolChangeUser ==
    [][PoolWrite =>
         \/ EmitsChangeUser /\ StoresPayload /\ ignore_reply' /\ rc' = 1
         \/ /\ peer_closed
            /\ socket' = socket
            /\ stored_query' = <<>>
            /\ ~ignore_reply'
            /\ ~was_persistent'
            /\ rc' = 0]_vars

\* The write after a pool re-attach has sent the COM_CHANGE_USER.
C15_Witness ==
    /\ last = "write"
    /\ cycles > 0
    /\ ignore_reply
    /\ Len(stored_query) = 1
    /\ stored_query[1].cmd = "COM_QUERY"
    /\ socket # <<>>
    /\ socket[Len(socket)].cmd = "COM_CHANGE_USER"
    /\ socket[Len(socket)].user = OldUser.user
    /\ socket[Len(socket)].scr = scramble

\* The write entry point is called for a DCB that has just left the pool:
\* by the router, by gw_change_user after a successful re-authentication, or
\* by the close entry point with its COM_QUIT.
PersistentWrite ==
    /\ was_persistent
    /\ \/ last' = "write" /\ nwrites' = nwrites + 1
       \/ last' = "change_user" /\ mses' = NewUser
       \/ last' = "close" /\ dcb_state' = "DISCONNECTED"

\* The buffer handed to that call is a COM_QUIT.
PersistentQuit ==
    \/ last' = "write" /\ client_command' = "COM_QUIT"
    \/ last' = "close"

\* C16 as stated: a write with was_persistent puts nothing on the socket
\* when the connection does not qualify or the payload is COM_QUIT, and
\* exactly one COM_CHANGE_USER otherwise; was_persistent is false afterwards.
C16_Original ==
    [][PersistentWrite =>
         /\ ~was_persistent'
         /\ IF dcb_state # "POLLING" \/ auth_state # "COMPLETE"
               \/ PersistentQuit
            THEN socket' = socket
            ELSE EmitsChangeUser]_vars

\* C16: a write with was_persistent never puts the client's payload on the
\* socket: the socket receives nothing when the connection does not qualify,
\* the payload is COM_QUIT or dcb_write fails, and exactly one
\* COM_CHANGE_USER otherwise; was_persistent is false afterwards.
C16_NoPayload ==
    [][PersistentWrite =>
         /\ ~was_persistent'
         /\ \A i \in DOMAIN socket' :
                i > Len(socket) => socket'[i].origin # "client"
         /\ IF dcb_state # "POLLING" \/ auth_state # "COMPLETE"
               \/ PersistentQuit
            THEN socket' = socket
            ELSE \/ EmitsChangeUser /\ rc' = 1
                 \/ socket' = socket /\ rc' = 0 /\ peer_closed]_vars

\* The only write of the connection, a COM_QUIT, came after the DCB left
\* the pool: nothing was sent.
C16_Witness ==
    /\ last = "write"
    /\ cycles = 1
    /\ nwrites = 1
    /\ client_command = "COM_QUIT"
    /\ dcb_state = "POLLING"
    /\ ~was_persistent
    /\ socket = <<>>
    /\ rc = 1

\* C17: a readable event that finds ignore_reply set passes nothing to the
\* router's clientReply: the complete packets read are consumed by the
\* driver, and only an incomplete packet stays in the read queue.
C17_IgnoredReply ==
    [][(ReadStep /\ ignore_reply)
         => /\ \A i \in DOMAIN calls' : calls'[i].op # "clientReply"
            /\ CompleteLen(Flat(readqueue')) = 0]_vars

\* The driver has answered an AuthSwitchRequest that came as reply to its
\* COM_CHANGE_USER, and still holds the client's query.
C17_Witness ==
    /\ last = "read"
    /\ ignore_reply
    /\ stored_query # <<>>
    /\ socket # <<>>
    /\ socket[Len(socket)].origin = "native"
    /\ wire = <<>>
    /\ calls = <<>>

\* The change-user entry point has run.
ChangeUserStep == last' = "change_user" /\ nwrites' = nwrites + 1

\* What the collaborators were asked in that call, and what they returned.
Reauth(ret) == [op |-> "reauthenticate", db |-> "", ret |-> ret]
Refresh(ok) == [op |-> "refresh", ok |-> ok]

\* The COM_CHANGE_USER of this call was handed on: it is on the socket, in
\* the delay queue or in stored_query.
ChangeUserForwarded ==
    \E q \in {socket', delayq', stored_query'} :
        \E i \in DOMAIN q :
            q[i].cmd = "COM_CHANGE_USER" /\ q[i].id = nwrites'

\* The call failed: the session keeps its identity and nothing is handed on.
ChangeUserRefused ==
    /\ mses' = mses
    /\ ~ChangeUserForwarded
    /\ socket' = socket

\* C18 as stated: re-authentication is attempted, and retried exactly once
\* after a refresh when the first attempt fails; the identity is committed
\* and the COM_CHANGE_USER forwarded only when re-authentication succeeded.
C18_Original ==
    [][ChangeUserStep =>
         /\ calls' # <<>>
         /\ calls'[1].op = "reauthenticate"
         /\ IF calls'[1].ret = 0 THEN Len(calls') = 1
            ELSE /\ Len(calls') = 3
                 /\ calls'[2].op = "refresh"
                 /\ calls'[3].op = "reauthenticate"
         /\ (mses' # mses \/ ChangeUserForwarded)
               => calls'[Len(calls')] = Reauth(0)]_vars

\* C18: when the authenticator has a reauthenticate entry point, local
\* re-authentication is attempted; when it fails the user list is refreshed
\* and, only when the refresh succeeded, the attempt is repeated once.  The
\* new user, database and password hash are committed and the
\* COM_CHANGE_USER is handed to the write entry point only when the last
\* attempt succeeded.  Without the entry point nothing is attempted, the
\* session's database name is left cleared and the call returns 0.
C18_ChangeUser ==
    [][ChangeUserStep =>
         \/ /\ calls' = <<>>
            /\ mses' = [mses EXCEPT !.db = ""]
            /\ ~ChangeUserForwarded
            /\ rc' = 0
         \/ /\ calls' \in {<<Reauth(0)>>,
                           <<Reauth(1), Refresh(TRUE), Reauth(0)>>}
            /\ mses' = NewUser
         \/ /\ calls' \in {<<Reauth(1), Refresh(FALSE)>>,
                           <<Reauth(1), Refresh(TRUE), Reauth(1)>>}
            /\ ChangeUserRefused]_vars

\* The second attempt succeeded after a refresh, and the COM_CHANGE_USER for
\* the new user is on the socket.
C18_Witness ==
    /\ last = "change_user"
    /\ calls = <<Reauth(1), Refresh(TRUE), Reauth(0)>>
    /\ mses = NewUser
    /\ socket # <<>>
    /\ socket[Len(socket)].cmd = "COM_CHANGE_USER"
    /\ socket[Len(socket)].user = NewUser.user
    /\ socket[Len(socket)].id = nwrites

\* The whole replies the server gives to one request, and the error packet
\* gw_change_user fabricates.
WholeReplies ==
    UNION {{OkPkt(t), ErrPkt(t, 1064), ErrPkt(t, ER_ACCESS_DENIED_ERROR),
            PrepareOkPkt(t, 1, 0) \o FieldDefPkt(t) \o EofPkt(t)} :
           t \in ValidTags}
    \cup {ErrPkt(0, ER_ACCESS_DENIED_ERROR),
          AuthSwitchPkt(DEFAULT_MYSQL_AUTH_PLUGIN, 2),
          AuthSwitchPkt(OTHER_AUTH_PLUGIN, 2)}

\* C19: while a session command awaits its reply, a readable event passes
\* to clientReply, tagged RESPONSE_END, nothing but a whole response; when it
\* passes nothing, the bytes received so far are all in the read queue; and
\* the response of one command is delivered with RESPONSE_END once only.
C19_WholeResponse ==
    [][TrackerRead =>
         /\ \A i \in DOMAIN calls' :
                (calls'[i].op = "clientReply" /\ calls'[i].isend)
                    => calls'[i].buf \in WholeReplies
         /\ (calls' = <<>> /\ rc' = 0 /\ cmdq' = cmdq)
                => Flat(readqueue') = ReadBuf
         /\ \A i, j \in DOMAIN ends' :
                (i < j /\ ends'[i] \in ValidTags) => ends'[i] # ends'[j]]_vars

\* The commands of the session-command buffers of a chain, in order.
SesCmds(q) ==
    LET f == SelectSeq(q, LAMBDA p : p.sescmd)
    IN  [i \in DOMAIN f |-> f[i].cmd]

\* The router has handed a buffer to the write entry point.
WriteCall == last' = "write" /\ nwrites' = nwrites + 1

\* The buffer of this call went to the queue q.
LandsIn(q) ==
    /\ q # <<>>
    /\ q[Len(q)].id = nwrites'
    /\ q[Len(q)].origin = "client"

\* The reply to the COM_CHANGE_USER of a pool re-attach is OK and the
\* stored query goes to the socket.
StoredQueryFlush ==
    /\ ReadStep
    /\ ignore_reply
    /\ ~ignore_reply'
    /\ stored_query # <<>>
    /\ Len(socket') = Len(socket) + Len(stored_query)

\* C20: the command of a session command is appended to the command list
\* when its buffer is written or put on the delay queue; a buffer held in
\* stored_query is not recorded before it is written, and when the stored
\* query is written the commands of its session commands are appended in the
\* order in which the buffers were handed to write.
C20_SescmdOrder ==
    [][/\ (WriteCall /\ (LandsIn(socket') \/ LandsIn(delayq')))
            => cmdq' = cmdq \o SesCmds(<<ClientPkt(nwrites', client_command',
                   IF LandsIn(socket') THEN socket'[Len(socket')].sescmd
                   ELSE delayq'[Len(delayq')].sescmd)>>)
       /\ (WriteCall /\ LandsIn(stored_query')) => cmdq' = cmdq
       /\ StoredQueryFlush => cmdq' = cmdq \o SesCmds(stored_query)]_vars

\* The close entry point has run.
CloseStep ==
    /\ last' = "close"
    /\ dcb_state = "NOPOLLING"
    /\ dcb_state' = "DISCONNECTED"

\* One COM_QUIT built by the driver has joined the socket.
EmitsQuit ==
    /\ Len(socket') = Len(socket) + 1
    /\ SubSeq(socket', 1, Len(socket)) = socket
    /\ socket'[Len(socket')].cmd = "COM_QUIT"
    /\ socket'[Len(socket')].origin = "close"

\* mysql_protocol_done has released what the protocol object held.
ProtocolReleased ==
    /\ stored_query' = <<>>
    /\ cmdq' = <<>>
    /\ ~ignore_reply'

\* The client DCB is closed exactly when the session is stopping and the
\* client DCB is polled.
ClientClosedWhenStopping ==
    IF session_state = "STOPPING"
    THEN \E b \in BOOLEAN :
            calls' = <<[op |-> "client_dcb_state", polling |-> b]>>
                     \o (IF b THEN <<[op |-> "dcb_close_client"]>> ELSE <<>>)
    ELSE calls' = <<>>

MaxName == 2
NameBytes == {100, 117}
Names == UNION {[1..n -> NameBytes] : n \in 0..MaxName}
GW_MYSQL_SCRAMBLE_SIZE == 20
null_client_sha1 == [i \in 1..GW_MYSQL_SCRAMBLE_SIZE |-> 0]
MysqlNativePassword ==
    <<109, 121, 115, 113, 108, 95, 110, 97, 116, 105, 118, 101, 95,
      112, 97, 115, 115, 119, 111, 114, 100>>

\* Twenty bytes that stand for a SHA1 of a password or for a scramble.
Digest(k) == [i \in 1..GW_MYSQL_SCRAMBLE_SIZE |-> (k * i + 3) % 256]

RECURSIVE WeightedSum(_, _)
WeightedSum(x, i) ==
    IF x = <<>> THEN 0
    ELSE (Head(x) * (Len(x) + i) + WeightedSum(Tail(x), i)) % 256

\* gw_sha1_str, gw_sha1_2_str: a 20-byte digest of the input bytes.
gw_sha1_str(x) ==
    [i \in 1..GW_MYSQL_SCRAMBLE_SIZE |-> (WeightedSum(x, i) + 31 * i) % 256]
gw_sha1_2_str(x, y) == gw_sha1_str(x \o y)

RECURSIVE BitXor(_, _)
BitXor(a, b) ==
    IF a = 0 /\ b = 0 THEN 0
    ELSE (((a % 2) + (b % 2)) % 2) + 2 * BitXor(a \div 2, b \div 2)

\* gw_str_xor(out, in1, in2, len)
gw_str_xor(x, y) == [i \in DOMAIN x |-> BitXor(x[i], y[i])]

\* gw_mysql_set_byte3(ptr, value)
gw_mysql_set_byte3(n) ==
    <<n % 256, (n \div 256) % 256, (n \div 65536) % 256>>

\* memcpy(buf + at, src, Len(src))
Poke(buf, at, src) ==
    [i \in DOMAIN buf |->
        IF i > at /\ i <= at + Len(src) THEN src[i - at] ELSE buf[i]]

\* The size computed without the terminator of the database.
ChangeUserBytesNoDbNul(m) ==
    1 + Len(m.user) + 1
      + (IF m.client_sha1 # null_client_sha1 THEN GW_MYSQL_SCRAMBLE_SIZE ELSE 0)
      + 1
      + (IF m.db # <<>> THEN Len(m.db) ELSE 0)
      + 2 + Len(MysqlNativePassword) + 1 + 4

\* `bytes`: the size of the buffer allocated for the packet.
ChangeUserBytes(m) ==
    1 + Len(m.user) + 1
      + (IF m.client_sha1 # null_client_sha1 THEN GW_MYSQL_SCRAMBLE_SIZE ELSE 0)
      + 1
      + (IF m.db # <<>> THEN Len(m.db) ELSE 0) + 1
      + 2 + Len(MysqlNativePassword) + 1 + 4

\* gw_create_change_user_packet(mses, protocol) as bytes: a zeroed buffer
\* written front to back through the moving pointer `payload`.
gw_create_change_user_packet_bytes(m, scr, charset) ==
    LET curr_db == m.db # <<>>
        curr_passwd == m.client_sha1 # null_client_sha1
        bytes == ChangeUserBytes(m)
        b0 == [i \in 1..bytes |-> 0]
        b1 == Poke(Poke(b0, 3, <<0>>), 4, <<17>>)
        p1 == 5
        b2 == Poke(b1, p1, m.user)
        p2 == p1 + Len(m.user) + 1
        hash1 == m.client_sha1
        hash2 == gw_sha1_str(hash1)
        new_sha == gw_sha1_2_str(scr, hash2)
        client_scramble == gw_str_xor(new_sha, hash1)
        b3 == IF curr_passwd
              THEN Poke(Poke(b2, p2, <<GW_MYSQL_SCRAMBLE_SIZE>>),
                        p2 + 1, client_scramble)
              ELSE b2
        p3 == IF curr_passwd THEN p2 + 1 + GW_MYSQL_SCRAMBLE_SIZE ELSE p2 + 1
        b4 == IF curr_db THEN Poke(b3, p3, m.db) ELSE b3
        p4 == (IF curr_db THEN p3 + Len(m.db) ELSE p3) + 1
        b5 == Poke(Poke(b4, p4, <<charset % 256>>), p4 + 1, <<0>>)
        p5 == p4 + 2
        b6 == Poke(b5, p5, MysqlNativePassword)
    IN  Poke(b6, 0, gw_mysql_set_byte3(bytes - 4))

\* The sessions, scrambles and charsets a packet is built for.
PacketInputs ==
    [user : Names, db : Names,
     client_sha1 : {null_client_sha1, Digest(7), Digest(201)},
     scramble : {Digest(1), Digest(90)},
     charset : {8, 33, 300}]

PacketInit ==
    /\ NewConnection
    /\ persistpoolmax = 0
    /\ caps = {}
    /\ packet \in {[in |-> i, out |-> <<>>] : i \in PacketInputs}
    /\ test = NoTest

\* gw_send_change_user_to_backend builds the packet for the session.
BuildPacket ==
    /\ packet.in # <<>>
    /\ packet.out = <<>>
    /\ packet' = [packet EXCEPT !.out =
                    gw_create_change_user_packet_bytes(
                        packet.in, packet.in.scramble, packet.in.charset)]
    /\ UNCHANGED <<auth_state, dcb_state, ssl_state, persistentstart,
                   was_persistent, errhandle_called, ignore_reply,
                   stored_query, sq_freed, mem_error, delayq, readqueue, cmdq,
                   cursor, scramble, current_command, client_command,
                   session_state, socket, wire, calls, ends, fake_hangup, rc,
                   last, server_maint, refreshes, persistpoolmax, server_ssl,
                   caps, greeted, peer_closed, hung, npartial, nwrites,
                   cycles, mses, fakeq, test>>

PacketSpec == PacketInit /\ [][BuildPacket]_vars

\* The fields of a built packet, cut out by the lengths of the inputs.
AuthData ==
    IF packet.in.client_sha1 # null_client_sha1
    THEN <<GW_MYSQL_SCRAMBLE_SIZE>>
           \o SubSeq(packet.out, 4 + 1 + Len(packet.in.user) + 1 + 2,
                     4 + 1 + Len(packet.in.user) + 1 + 1
                       + GW_MYSQL_SCRAMBLE_SIZE)
    ELSE <<0>>

\* C22: a built COM_CHANGE_USER is the 3-byte length of everything after
\* the header, sequence id 0, 0x11, the user and NUL, the auth data (0x14
\* and 20 bytes when the session has a password hash, one 0x00 when it has
\* none), the database and NUL, two charset bytes and mysql_native_password
\* and NUL, for every user, database and password presence.
C22_PacketLayout ==
    (packet.out # <<>>) =>
        /\ Len(AuthData) =
              IF packet.in.client_sha1 # null_client_sha1
              THEN 1 + GW_MYSQL_SCRAMBLE_SIZE ELSE 1
        /\ packet.out =
              gw_mysql_set_byte3(Len(packet.out) - 4) \o <<0>> \o <<17>>
                \o packet.in.user \o <<0>>
                \o AuthData
                \o packet.in.db \o <<0>>
                \o <<packet.in.charset % 256, 0>>
                \o MysqlNativePassword \o <<0>>

C22_Witness ==
    /\ packet.out # <<>>
    /\ packet.in.client_sha1 # null_client_sha1
    /\ Len(packet.in.user) = MaxName
    /\ Len(packet.in.db) = MaxName
    /\ Len(packet.out) = 4 + 1 + MaxName + 1 + 21 + MaxName + 1 + 2 + 22
    /\ SubSeq(packet.out, 4 + 1 + MaxName + 1 + 2, 4 + 1 + MaxName + 1 + 21)
          # null_client_sha1

\* ------------------------------------------------------- the bug359 test
\* main of bug359.cpp.  The error log is a sequence of at most MaxLog
\* lines; strstr finds a message when one of the lines carries it.
MaxLog == 3
LogLines == {"Warning : Unsupported router option \"slave\"",
             "Error : Couldn't find suitable Master",
             "Error : other"}
Logs == UNION {[1..n -> LogLines] : n \in 0..MaxLog}
strstr(log, msg) == \E i \in DOMAIN log : log[i] = msg

\* The test with the check for the error message left out.
bug359_main_lenient(connect, readlog, log) ==
    LET r1 == connect
        r2 == r1 + readlog
    IN  IF strstr(log, "Warning : Unsupported router option \"slave\"")
        THEN r2 ELSE r2 + 1

\* main: global_result after ConnectMaxscale returned `connect`, ReadLog
\* returned `readlog` and err_log_content holds `log`.
bug359_main(connect, readlog, log) ==
    LET r1 == connect
        r2 == r1 + readlog
        r3 == IF strstr(log, "Warning : Unsupported router option \"slave\"")
              THEN r2 ELSE r2 + 1
    IN  IF strstr(log, "Error : Couldn't find suitable Master")
        THEN r3 + 1 ELSE r3

\* ConnectMaxscale and ReadLog return 0 on success.
TestInputs == [connect : {0, 1}, readlog : {0, 1}, log : Logs]

TestInit ==
    /\ NewConnection
    /\ persistpoolmax = 0
    /\ caps = {}
    /\ packet = NoPacket
    /\ test \in {[in |-> i, out |-> <<>>] : i \in TestInputs}

\* A run of the test.  When ReadLog fails err_log_content is not
\* initialised and strstr searches whatever it points to.
RunTest ==
    /\ test.in # <<>>
    /\ test.out = <<>>
    /\ \E seen \in (IF test.in.readlog = 0 THEN {test.in.log} ELSE Logs) :
          test' = [test EXCEPT !.out =
                     <<bug359_main(test.in.connect, test.in.readlog, seen)>>]
    /\ UNCHANGED <<auth_state, dcb_state, ssl_state, persistentstart,
                   was_persistent, errhandle_called, ignore_reply,
                   stored_query, sq_freed, mem_error, delayq, readqueue, cmdq,
                   cursor, scramble, current_command, client_command,
                   session_state, socket, wire, calls, ends, fake_hangup, rc,
                   last, server_maint, refreshes, persistpoolmax, server_ssl,
                   caps, greeted, peer_closed, hung, npartial, nwrites,
                   cycles, mses, fakeq, packet>>

TestSpec == TestInit /\ [][RunTest]_vars

AuthReplyRead ==
    /\ ReadStep
    /\ auth_state = "RESPONSE_SENT"
    /\ dcb_state = "POLLING"
    /\ ~persistentstart
    /\ session_state # "DUMMY"
    /\ ~peer_closed
    /\ CompleteLen(AuthReadBuf) > 0

\* The value extract (authenticate) returned in the step, "-" when it was
\* not called.
AuthenticatorRc(op) ==
    IF \E i \in DOMAIN calls' : calls'[i].op = op
    THEN calls'[CHOOSE i \in DOMAIN calls' : calls'[i].op = op].rc
    ELSE "-"

\* The delay queue was handed to the socket: it is empty and, unless it was
\* a COM_QUIT for a pooled server, its head was written.
DelayqFlushed ==
    /\ delayq' = <<>>
    /\ (delayq # <<>> /\ ~(MYSQL_IS_COM_QUIT(delayq) /\ persistpoolmax # 0))
          => (Emitted # <<>> /\ Emitted[1].id = delayq[1].id)

ConnectStep == last' = "connect" /\ dcb_state = "ALLOC"
ConnectCalled(rv, errno) ==
    \E i \in DOMAIN calls' :
        calls'[i] = [op |-> "connect", rv |-> rv, errno |-> errno]
SocketClosed ==
    \E i \in DOMAIN calls' : calls'[i] = [op |-> "close", fd |-> SocketFd]

\* C25: connect sets auth_state from the result of the nonblocking
\* connect(): CONNECTED when it returns 0, PENDING_CONNECT when it reports
\* EINPROGRESS, the socket then staying open and its fd being returned;
\* otherwise auth_state stays INIT, the socket is closed and -1 is returned.
C25_Connect ==
    [][ConnectStep =>
        /\ ConnectCalled(0, "-") =>
             (auth_state' = "CONNECTED" /\ ~SocketClosed /\ rc' = SocketFd)
        /\ ConnectCalled(-1, "EINPROGRESS") =>
             (auth_state' = "PENDING_CONNECT" /\ ~SocketClosed
                /\ rc' = SocketFd)
        /\ ConnectCalled(-1, "ECONNREFUSED") =>
             (auth_state' = "INIT" /\ auth_state = "INIT" /\ SocketClosed
                /\ rc' = -1)
        /\ \/ ConnectCalled(0, "-")
           \/ ConnectCalled(-1, "EINPROGRESS")
           \/ ConnectCalled(-1, "ECONNREFUSED")
           \/ (calls' = <<[op |-> "open_network_socket", so |-> -1]>>
                 /\ auth_state' = "INIT" /\ rc' = -1)]_vars

\* A connect in progress: the fd is returned and the socket is open.
C25_Witness ==
    /\ last = "connect"
    /\ auth_state = "PENDING_CONNECT"
    /\ rc = SocketFd
    /\ calls = <<[op |-> "open_network_socket", so |-> SocketFd],
                 [op |-> "connect", rv |-> -1, errno |-> "EINPROGRESS"]>>

\* A writable event on a connection in the poll set.
WriteReadyStep ==
    /\ last' = "write_ready"
    /\ dcb_state = "POLLING"
    /\ wire' = wire /\ socket' = socket /\ peer_closed' = peer_closed

\* C26: a writable event on a polling connection moves auth_state from
\* PENDING_CONNECT to CONNECTED without draining the write queue, and in
\* every other auth_state drains the write queue and leaves auth_state
\* unchanged.
C26_WriteEvent ==
    [][WriteReadyStep =>
        /\ IF auth_state = "PENDING_CONNECT"
           THEN auth_state' = "CONNECTED" /\ calls' = <<>>
           ELSE /\ auth_state' = auth_state
                /\ calls' = <<[op |-> "dcb_drain_writeq"]>>
        /\ rc' = 1]_vars

\* The write queue of an authenticated connection was drained.
C26_Witness ==
    /\ last = "write_ready"
    /\ dcb_state = "POLLING"
    /\ auth_state = "COMPLETE"
    /\ calls = <<[op |-> "dcb_drain_writeq"]>>
    /\ socket # <<>>

\* A readable or a hangup event on a connection that sits in the pool.
PoolEvent ==
    /\ persistentstart
    /\ dcb_state = "POLLING"
    /\ ReadStep \/ HangupStep

\* C27: a readable or hangup event on a connection in the persistent pool
\* only marks the connection as errored: no bytes are read, auth_state,
\* ignore_reply, stored_query and the queues are unchanged and no router
\* callback is made.
C27_PoolEvent ==
    [][PoolEvent =>
        /\ errhandle_called'
        /\ wire' = wire
        /\ socket' = socket
        /\ auth_state' = auth_state
        /\ ignore_reply' = ignore_reply
        /\ stored_query' = stored_query
        /\ delayq' = delayq
        /\ readqueue' = readqueue
        /\ fakeq' = fakeq
        /\ cmdq' = cmdq
        /\ session_state' = session_state
        /\ persistentstart'
        /\ calls' = <<>>]_vars

\* The server closed a pooled connection and the hangup was delivered.
C27_Witness ==
    /\ persistentstart
    /\ errhandle_called
    /\ last = "hangup"
    /\ peer_closed
    /\ calls = <<>>

\* The router hands a buffer that is no COM_QUIT to write while the reply to
\* the driver's COM_CHANGE_USER is awaited.
DeferredWrite ==
    /\ WriteCall
    /\ ignore_reply
    /\ client_command' # "COM_QUIT"

\* The buffer of this call joined stored_query at its end.
AppendsPayload ==
    /\ Len(stored_query') = Len(stored_query) + 1
    /\ SubSeq(stored_query', 1, Len(stored_query)) = stored_query
    /\ stored_query'[Len(stored_query')].id = nwrites'
    /\ stored_query'[Len(stored_query')].cmd = client_command'

\* The complete packets a readable event works on, and the event in which
\* the last of them is the OK reply to the driver's COM_CHANGE_USER.
RepliesRead ==
    Packets(SubSeq(AuthReadBuf, 1, CompleteLen(AuthReadBuf)))
OkToChangeUser ==
    /\ ReadStep
    /\ ignore_reply
    /\ auth_state = "COMPLETE"
    /\ dcb_state = "POLLING"
    /\ ~persistentstart
    /\ session_state # "DUMMY"
    /\ ~peer_closed
    /\ RepliesRead # <<>>
    /\ Len(RepliesRead[Len(RepliesRead)]) > MYSQL_HEADER_LEN
    /\ RepliesRead[Len(RepliesRead)][5] = MYSQL_REPLY_OK

\* The payloads held in stored_query joined the socket, in their order.
StoredQueryWritten ==
    /\ Len(socket') = Len(socket) + Len(stored_query)
    /\ SubSeq(socket', 1, Len(socket)) = socket
    /\ Payloads(Emitted) = Payloads(stored_query)

\* C28: while ignore_reply is true every write that is no
\* COM_QUIT is appended to stored_query and writes nothing to the socket,
\* and when the OK reply to the COM_CHANGE_USER arrives the payloads of
\* stored_query are written to the socket in the order they were handed to
\* write.
C28_StoredQueryOrder ==
    [][/\ DeferredWrite => (AppendsPayload /\ socket' = socket)
       /\ OkToChangeUser => StoredQueryWritten]_vars

\* Two payloads deferred during a pool re-attach have just been written,
\* in the order they were handed to write.
C28_Witness ==
    /\ last = "read"
    /\ ~ignore_reply
    /\ stored_query = <<>>
    /\ cycles > 0
    /\ Len(socket) = 2
    /\ socket[1].origin = "client"
    /\ socket[2].origin = "client"
    /\ socket[1].id < socket[2].id

\* The router hands a COM_QUIT to write while the reply to the driver's
\* COM_CHANGE_USER is awaited.
QuitWhileIgnored ==
    /\ WriteCall
    /\ ignore_reply
    /\ client_command' = "COM_QUIT"

\* C29 (as stated): a COM_QUIT write while ignore_reply is true leaves
\* stored_query empty, writes nothing to the socket and raises a fake
\* hangup.
C29_Original ==
    [][QuitWhileIgnored =>
        (stored_query' = <<>> /\ socket' = socket /\ fake_hangup')]_vars

\* C29 (amended): a COM_QUIT write while ignore_reply is true is dropped:
\* nothing is written to the socket, a fake hangup is raised and 0 is
\* returned; stored_query and ignore_reply stay as they are.
C29_QuitDropped ==
    [][QuitWhileIgnored =>
        /\ stored_query' = stored_query
        /\ ignore_reply'
        /\ socket' = socket
        /\ delayq' = delayq
        /\ fake_hangup'
        /\ rc' = 0]_vars

\* The COM_QUIT was dropped and the stored query is still held.
C29_Witness ==
    /\ last = "write"
    /\ client_command = "COM_QUIT"
    /\ ignore_reply
    /\ stored_query # <<>>
    /\ fake_hangup
    /\ rc = 0

\* C30: when the reply to the driver's COM_CHANGE_USER is OK, ignore_reply
\* is cleared, stored_query is empty afterwards, its payloads have reached
\* the socket and the command of every session command among them has been
\* appended to the command list, as a direct write would have done.
C30_OkReply ==
    [][OkToChangeUser =>
        /\ ~ignore_reply'
        /\ stored_query' = <<>>
        /\ StoredQueryWritten
        /\ cmdq' = cmdq \o SesCmds(stored_query)]_vars

\* A readable event in which the last complete packet read is an
\* AuthSwitchRequest, longer than an EOF packet, sent in reply to the
\* driver's COM_CHANGE_USER.
AuthSwitchToChangeUser ==
    /\ ReadStep
    /\ ignore_reply
    /\ auth_state = "COMPLETE"
    /\ dcb_state = "POLLING"
    /\ ~persistentstart
    /\ session_state # "DUMMY"
    /\ ~peer_closed
    /\ RepliesRead # <<>>
    /\ Len(RepliesRead[Len(RepliesRead)]) > MYSQL_EOF_PACKET_LEN
    /\ RepliesRead[Len(RepliesRead)][5] = MYSQL_REPLY_AUTHSWITCHREQUEST
SwitchPlugin == RepliesRead[Len(RepliesRead)][6]
SwitchScramble == RepliesRead[Len(RepliesRead)][8]

\* C31: when the reply to the COM_CHANGE_USER is an AuthSwitchRequest that
\* names the default native plugin, the scramble of the packet replaces the
\* backend's scramble, one native-password response computed from the new
\* scramble is written, ignore_reply stays true and stored_query is
\* unchanged.
C31_AuthSwitch ==
    [][(AuthSwitchToChangeUser /\ SwitchPlugin = DEFAULT_MYSQL_AUTH_PLUGIN)
        => /\ scramble' = SwitchScramble
           /\ Len(socket') = Len(socket) + 1
           /\ SubSeq(socket', 1, Len(socket)) = socket
           /\ socket'[Len(socket')].origin = "native"
           /\ socket'[Len(socket')].scr = SwitchScramble
           /\ ignore_reply'
           /\ stored_query' = stored_query
           /\ fake_hangup' = fake_hangup
           /\ calls' = <<>>]_vars

\* The response to an AuthSwitchRequest was computed from a scramble other
\* than the one of the handshake; the client's query is still held.
C31_Witness ==
    /\ last = "read"
    /\ ignore_reply
    /\ stored_query # <<>>
    /\ scramble = 2
    /\ socket # <<>>
    /\ socket[Len(socket)].origin = "native"
    /\ socket[Len(socket)].scr = 2

\* A readable event reads, as the reply to the COM_CHANGE_USER, an ERR
\* packet or an AuthSwitchRequest that names another plugin than the default.
ChangeUserReplyRefused ==
    /\ ReadStep
    /\ ignore_reply
    /\ auth_state = "COMPLETE"
    /\ dcb_state = "POLLING"
    /\ ~persistentstart
    /\ session_state # "DUMMY"
    /\ ~peer_closed
    /\ RepliesRead # <<>>
    /\ LET reply == RepliesRead[Len(RepliesRead)]
       IN  /\ Len(reply) > MYSQL_HEADER_LEN
           /\ \/ reply[5] = MYSQL_REPLY_ERR
              \/ /\ reply[5] = MYSQL_REPLY_AUTHSWITCHREQUEST
                 /\ Len(reply) > MYSQL_EOF_PACKET_LEN
                 /\ reply[6] # DEFAULT_MYSQL_AUTH_PLUGIN

\* C32: when the reply to the COM_CHANGE_USER is an ERR packet or an
\* AuthSwitchRequest to another plugin than the default one, the readable
\* event raises a fake hangup, writes nothing to the socket (so the stored
\* query is never written) and leaves ignore_reply false and stored_query
\* empty.
C32_Refused ==
    [][(ChangeUserReplyRefused) =>
          (/\ fake_hangup'
           /\ socket' = socket
           /\ ~ignore_reply'
           /\ stored_query' = <<>>)]_vars

\* The ERR reply to a COM_CHANGE_USER was read: the error was looked at
\* (the users were refreshed for the access-denied code), a hangup is
\* pending, and the protocol has left the sub-state without a stored query.
C32_Witness ==
    /\ last = "read"
    /\ auth_state = "COMPLETE"
    /\ refreshes = 1
    /\ fake_hangup
    /\ ~hung
    /\ ~ignore_reply
    /\ stored_query = <<>>
    /\ rc = 0

\* C33: when a readable event moves auth_state to COMPLETE and the delay
\* queue holds a COM_CHANGE_USER, every payload of the queue is written to
\* the socket, the COM_CHANGE_USER rebuilt with the scramble the backend
\* sent (the cases of a failed write and of a queued COM_QUIT are left out).
C33_DelayFlush ==
    [][(/\ auth_state # "COMPLETE"
        /\ auth_state' = "COMPLETE"
        /\ rc' # 0
        /\ \E i \in DOMAIN delayq : delayq[i].cmd = "COM_CHANGE_USER"
        /\ \A i \in DOMAIN delayq : delayq[i].cmd # "COM_QUIT")
       => \A i \in DOMAIN delayq :
            \E j \in DOMAIN Emitted :
               /\ Emitted[j].id = delayq[i].id
               /\ Emitted[j].cmd = delayq[i].cmd
               /\ delayq[i].cmd = "COM_CHANGE_USER"
                     => Emitted[j].scr = scramble']_vars

\* The number of buffers the step handed to the router tagged RESPONSE_END.
ResponseEnds ==
    Cardinality({i \in DOMAIN calls' :
                   calls'[i].op = "clientReply" /\ calls'[i].isend})

\* C34: in a readable event that runs the response tracker for a session
\* that is routed, one command, the head, leaves session_command_queue for
\* every buffer delivered with RESPONSE_END (the count of the response
\* having reached zero), and no command leaves it otherwise; while the count
\* of the response in progress is positive its command is still the head.
C34_TrackerArchives ==
    [][(TrackerRead /\ session_state = "ROUTER_READY") =>
          (/\ ResponseEnds <= Len(cmdq)
           /\ cmdq' = SubSeq(cmdq, ResponseEnds + 1, Len(cmdq))
           /\ cursor'.np > 0 => cmdq' # <<>>)]_vars

\* The three packets of the reply to a COM_STMT_PREPARE, read in fragments,
\* were delivered as one response and the command has left the list.
C34_Witness ==
    /\ last = "read"
    /\ npartial > 0
    /\ cmdq = <<>>
    /\ cursor.np = 0
    /\ \E i \in DOMAIN calls :
         /\ calls[i].op = "clientReply"
         /\ calls[i].isend
         /\ Len(Packets(calls[i].buf)) = 3

\* The tracker starts a count on what the event reads, or resumes one over a
\* read queue of whole packets; it takes at least one whole packet and stops
\* because fewer than 3 bytes follow it.
TrackerLacksHeader ==
    /\ TrackerRead
    /\ CompleteLen(Flat(readqueue)) = Len(Flat(readqueue))
    /\ cursor.np = 0 \/ (readqueue # <<>> /\ cursor.nb = FirstPacketLen(ReadBuf))
    /\ CompleteLen(ReadBuf) > 0
    /\ Len(ReadBuf) - CompleteLen(ReadBuf) < 3
    /\ calls' = <<>>
    /\ cmdq' = cmdq
    /\ cursor'.np > 0

\* C35: when the tracker stops because fewer than 3 bytes of the next
\* packet header are available, the read queue afterwards holds the packets
\* already taken followed by the unread tail: the bytes in the order in
\* which the server sent them.
C35_HeaderWait ==
    [][(TrackerLacksHeader) => Flat(readqueue') = ReadBuf]_vars

ErrorReports ==
    {i \in DOMAIN calls' : calls'[i].op = "handleError"}

\* C37 (as stated): the session moves to STOPPING only in a step in which
\* the error hook reported succp = false, and a step in which the hook
\* reported succp = true every time leaves the session state as it was,
\* whatever the action of the report.
C37_Original ==
    [][/\ (session_state' = "STOPPING" /\ session_state # "STOPPING")
            => \E i \in ErrorReports : ~calls'[i].succp
       /\ (ErrorReports # {} /\ \A i \in ErrorReports : calls'[i].succp)
            => session_state' = session_state]_vars

\* C37 (amended): the session moves to STOPPING only in a step that reported
\* to the error hook, with REPLY_CLIENT or with succp = false; a runtime
\* report (NEW_CONNECTION) for which the hook reported succp = true leaves
\* the session state as it was; an auth-time report (REPLY_CLIENT) moves the
\* session to STOPPING whatever the hook reported.
C37_Stopping ==
    [][/\ (session_state' = "STOPPING" /\ session_state # "STOPPING")
            => \E i \in ErrorReports :
                  \/ calls'[i].action = "ERRACT_REPLY_CLIENT"
                  \/ ~calls'[i].succp
       /\ (/\ ErrorReports # {}
           /\ \A i \in ErrorReports :
                 calls'[i].action = "ERRACT_NEW_CONNECTION" /\ calls'[i].succp)
            => session_state' = session_state
       /\ (\E i \in ErrorReports : calls'[i].action = "ERRACT_REPLY_CLIENT")
            => session_state' = "STOPPING"]_vars

\* An authentication failure was reported, the hook answered succp = true
\* and the session is stopping.
C37_Witness ==
    /\ last = "read"
    /\ auth_state = "FAILED"
    /\ session_state = "STOPPING"
    /\ calls = <<[op |-> "handleError", action |-> "ERRACT_REPLY_CLIENT",
                 succp |-> TRUE]>>

\* The commands the step appended to session_command_queue, and the packets
\* it placed on the socket or on the delay queue.
Recorded == SubSeq(cmdq', Len(cmdq) + 1, Len(cmdq'))
Placed ==
    Emitted \o (IF Len(delayq') > Len(delayq)
                THEN SubSeq(delayq', Len(delayq) + 1, Len(delayq'))
                ELSE <<>>)

\* C38: every command a call of the write entry point appends to
\* session_command_queue is the command of a packet that the same call
\* placed on the socket or on the delay queue; a packet the call drops is
\* not recorded.
C38_RecordedPlaced ==
    [][(WriteCall /\ Len(cmdq') > Len(cmdq))
       => \A i \in DOMAIN Recorded :
             \E j \in DOMAIN Placed : Placed[j].cmd = Recorded[i]]_vars

\* C39: a call of gw_change_user in which local re-authentication did not
\* succeed (it failed, also after the refresh, or the authenticator has no
\* reauthenticate operation) leaves the user, the database and the password
\* hash of the session as they were.
C39_IdentityKept ==
    [][(/\ ChangeUserStep
        /\ ~(calls' # <<>> /\ calls'[Len(calls')] = Reauth(0)))
       => mses' = mses]_vars

\* A readable event takes at least one complete packet from the socket
\* while the authentication is not complete.
AuthPacketRead ==
    /\ ReadStep
    /\ auth_state # "COMPLETE"
    /\ dcb_state = "POLLING"
    /\ ~persistentstart
    /\ session_state # "DUMMY"
    /\ ~peer_closed
    /\ ReadBytes # <<>>
    /\ CompleteLen(AuthReadBuf) > 0

\* C40: a complete packet the readable handler takes from the socket before
\* authentication completes is decoded as the handshake, handed to the
\* authenticator, or makes the handler report a failure; it is never taken
\* with auth_state unchanged, nothing written and no collaborator called.
C40_PacketProcessed ==
    [][(AuthPacketRead) =>
          ~(/\ auth_state' = auth_state
            /\ calls' = <<>>
            /\ socket' = socket
            /\ scramble' = scramble
            /\ readqueue' = <<>>)]_vars
====
